---- MODULE Spec2Model ----
(***************************************************************************)
(* Alert pipeline of the master dashboard backend: the AlertManager sweep  *)
(* (services/alert_manager.py), the alert REST endpoints                   *)
(* (api/v1/endpoints/alerts.py) and metric ingestion                       *)
(* (api/v1/endpoints/metrics.py), over the alerts / alert_rules / metrics  *)
(* tables.  Time is in whole seconds.                                      *)
(***************************************************************************)
EXTENDS Integers, Sequences, FiniteSets, TLC

\* ---------------------------------------------------------------- bounds
MaxAlerts == 2      \* rows the alerts table may hold
MaxFaults == 1      \* database / notification failures injected in one run
MaxRequests == 2    \* operator requests (alerts and rules API) served in one run
MaxSockets == 2     \* WebSocket connections accepted in one run
MaxBatch == 2       \* records in one ingestion request
MaxChannels == 2    \* entries of a rule's notification_channels
MaxSamples == 2     \* rows of the metrics table when every row is kept

\* ------------------------------------------------------ program constants
RetentionDays == 30  \* settings.METRICS_RETENTION_DAYS
SecondsPerDay == 86400    \* range of timedelta.seconds
StaleSeconds == 120       \* freshness window of _evaluate_rule
EpsilonInverse == 1000    \* 1 / 0.001, the tolerance of eq and ne

None == "None"      \* a NULL column, an absent dict key
NoTime == -1        \* a NULL datetime, an absent datetime entry
Unset == "Unset"    \* a field left out of a request body
NoEvaluation == [rule |-> None, time |-> NoTime]

\* The instants at which something happens in one run, after instant 0.
\* Their differences exercise both sides of the evaluation intervals (10,
\* 60), of the cooldowns (60, 300) and of the freshness window (120 and 130
\* seconds from 10 and 0), and ages of one day and more.
Schedules == {<<10, 60>>, <<10, 130>>, <<60, 300>>, <<10, 86410>>}
\* Instants on both sides of a window of one day and of the retention period.
PruneSchedules == {<<10, 86410, 2592010>>}
TimePoints ==
  {0} \cup UNION {{q[i] : i \in 1..Len(q)} : q \in Schedules \cup PruneSchedules}

Machines == {"m1"}
Values == {60, 85}

AlertStatus == {"active", "acknowledged", "resolved", "suppressed"}

\* Request inputs: the notes of the bulk calls, and the acknowledged_by /
\* resolved_by fields of an AlertUpdate body.
NotesInputs == {None}
ByInputs == {Unset, None}

\* An alert_rules row watching cpu_usage > 80 on m1.
RuleRow(evaluation_interval, cooldown_period) ==
  [machine_id |-> "m1", component_id |-> None, metric_type |-> "cpu_usage",
   threshold_value |-> 80, comparison_operator |-> "gt", enabled |-> TRUE,
   evaluation_interval |-> evaluation_interval,
   cooldown_period |-> cooldown_period]

\* hardware_components: the name of each component of m1, by id.
hardware_components ==
  [h \in {"h0", "h1"} |-> IF h = "h0" THEN "CPU0" ELSE "CPU1"]

\* A rule for one component of its machine.
ComponentRule(component_id) ==
  [RuleRow(60, 300) EXCEPT !.component_id = component_id]

\* Contents of the alert_rules table at start-up: one rule with the column
\* defaults (60, 300), or one rule with the minima the schema admits (10, 60).
RuleTables == {[r \in {"r1"} |-> RuleRow(60, 300)],
               [r \in {"r1"} |-> RuleRow(10, 60)]}

VARIABLES
  now,               \* datetime.utcnow()
  later,             \* the instants of the run still to come
  rules,             \* alert_rules table: rule id -> row
  metrics,           \* metrics table: set of rows
  alerts,            \* alerts table: sequence of rows, the index is the id
  last_evaluations,  \* AlertManager.last_evaluations
  cooldown_periods,  \* AlertManager.cooldown_periods
  sweep_pc,          \* "sleep": in asyncio.sleep; "notify": suspended in _send_notifications
  sweep_todo,        \* rules of the running sweep still to be evaluated
  sweep_cur,         \* the evaluation suspended in _send_notifications
  slept,             \* the loop's sleep has elapsed since the last sweep
  fault_budget,      \* the failures that may be injected in this run
  fault_log,         \* the failures injected so far: what raised, for which rule, when
  requests_left,     \* operator requests still to be served
  alert_manager,     \* AlertManager.is_running, and the _alert_loop tasks alive
  active_connections,  \* WebSocketManager.active_connections: the dict's entries in order
  client_types,      \* WebSocketManager.client_types
  last_seen,         \* keys of WebSocketManager.last_seen
  sockets,           \* state of every WebSocket: "new", "open", "closed", "stuck"
  bc,                \* the broadcast coroutine in flight
  unicast,           \* the send_to_client coroutine in flight
  spawned,           \* broadcast_to_dashboards tasks created and not yet started
  sent,              \* the writes of the last send operation that ended
  machines,          \* machines table: machine id -> last_seen, last_metrics_update
  feed,              \* what the agents of this run submit
  response,          \* the response to the last ingestion request
  report,            \* what the last prune or summary of the metrics did
  notification_channels,  \* alert_rules.notification_channels, by rule
  config,            \* system configuration row: alert_config's enabled flags
  notified,          \* what the last _send_notifications that returned did
  http               \* the agent's HTTPClient._request call: position, attempts, result

alert_vars == <<now, later, rules, metrics, alerts, last_evaluations,
                cooldown_periods, sweep_pc, sweep_todo, sweep_cur, slept,
                fault_budget, fault_log, requests_left, alert_manager>>

hub_vars == <<active_connections, client_types, last_seen, sockets, bc, unicast,
              spawned, sent>>

ingest_vars == <<machines, feed, response, report>>

notify_vars == <<notification_channels, config, notified>>

client_vars == <<http>>

\* What the steps of the alert pipeline and of the hub leave alone.
elsewhere == <<hub_vars, ingest_vars, notify_vars, client_vars>>
outside_hub == <<alert_vars, ingest_vars, notify_vars, client_vars>>

vars == <<alert_vars, hub_vars, ingest_vars, notify_vars, client_vars>>

\* -------------------------------------------------------------- helpers

\* timedelta.seconds of a difference of two datetimes d seconds apart: the
\* seconds field of the normalised (days, seconds) pair, always in 0..86399.
Seconds(d) == d % SecondsPerDay

Abs(x) == IF x < 0 THEN -x ELSE x

\* float("nan"), which a request body may carry as NaN: every comparison
\* with it is false.
NaN == -1000000

_evaluate_condition(current_value, threshold, operator) ==
  IF current_value = NaN THEN FALSE ELSE
  CASE operator = "gt"  -> current_value > threshold
    [] operator = "lt"  -> current_value < threshold
    [] operator = "eq"  -> Abs(current_value - threshold) * EpsilonInverse < 1
    [] operator = "gte" -> current_value >= threshold
    [] operator = "lte" -> current_value <= threshold
    [] operator = "ne"  -> Abs(current_value - threshold) * EpsilonInverse >= 1
    [] OTHER            -> FALSE

\* MetricModel rows of the rule's machine and metric type.
MatchingMetrics(rule) ==
  {m \in metrics : m.machine_id = rule.machine_id /\ m.metric_type = rule.metric_type}

\* order_by(timestamp.desc()).first(): the rows that may come first.
LatestMetrics(rule) ==
  {m \in MatchingMetrics(rule) : \A o \in MatchingMetrics(rule) : o.timestamp <= m.timestamp}

\* The row the database returns among equal timestamps; tie names the value
\* of the row it happens to return.
FirstMetric(rule, tie) ==
  IF \E m \in LatestMetrics(rule) : m.value = tie
    THEN CHOOSE m \in LatestMetrics(rule) : m.value = tie
    ELSE CHOOSE m \in LatestMetrics(rule) : TRUE

AlertIds(al) == 1..Len(al)

\* The same query filtering on RESOLVED.
ActiveAlerts_resolved(al, rule_key) ==
  {i \in AlertIds(al) : al[i].rule_id = rule_key /\ al[i].status = "resolved"}

\* filter(rule_id == rule.id, status == ACTIVE)
ActiveAlerts(al, rule_key) ==
  {i \in AlertIds(al) : al[i].rule_id = rule_key /\ al[i].status = "active"}

\* .first() of a query without its filter: the first row of the table when
\* the scan does not start inside ids.
FirstAlert_unfiltered(ids, first) ==
  IF first \in ids THEN first ELSE 1

\* .first() of an unordered query: the scan starts at the row first.
FirstAlert(ids, first) ==
  IF first \in ids THEN first ELSE CHOOSE i \in ids : TRUE

\* AlertModel(...) with the column defaults; origin tells the rows of
\* _create_alert (whose metadata carries evaluation_time) from the rows of
\* POST /alerts.
NewAlert(rule_key, t, origin) ==
  [rule_id |-> rule_key, status |-> "active", triggered_at |-> t,
   acknowledged_at |-> NoTime, acknowledged_by |-> None,
   resolved_at |-> NoTime, resolved_by |-> None, notes |-> None,
   origin |-> origin]

\* ------------------------------------------------- AlertManager._evaluate_rule

\* if rule_key in self.cooldown_periods: if current_time < ...: return
InCooldown(cd, rule_key, current_time) ==
  cd[rule_key] # NoTime /\ current_time < cd[rule_key]

\* if rule_key in self.last_evaluations: if (...).seconds < interval: return
EvaluatedRecently(le, rule_key, current_time) ==
  /\ le[rule_key] # NoTime
  /\ Seconds(current_time - le[rule_key]) < rules[rule_key].evaluation_interval

\* if (current_time - latest_metric.timestamp).seconds > 120: return
NotRecent(current_time, latest_metric) ==
  Seconds(current_time - latest_metric.timestamp) > StaleSeconds

\* The auto-resolve assignments without resolved_by and notes.
AutoResolved_unsigned(alert, current_time) ==
  [alert EXCEPT !.status = "resolved",
                !.resolved_at = current_time]

\* The row after the auto-resolve assignments.
AutoResolved(alert, current_time) ==
  [alert EXCEPT !.status = "resolved",
                !.resolved_at = current_time,
                !.resolved_by = "system",
                !.notes = "Auto-resolved: condition no longer met"]

Outcome(al, le, cd, result) ==
  [alerts |-> al, le |-> le, cd |-> cd, result |-> result]

\* self.cooldown_periods[rule_key] = current_time + timedelta(seconds=...)
CooldownStarted(cd, rule_key, current_time) ==
  [cd EXCEPT ![rule_key] = current_time + rules[rule_key].cooldown_period]

\* A failed commit after which the cooldown is started all the same.
CommitRaised_cooldown(al, le, cd, rule_key, current_time, result) ==
  Outcome(al, le,
          [cd EXCEPT ![rule_key] = current_time + rules[rule_key].cooldown_period],
          result)

\* db.commit() raises in _create_alert or in the auto-resolve branch: the
\* exception leaves _evaluate_rule, nothing of the transaction is stored.
CommitRaised(al, le, cd, rule_key, current_time, result) ==
  Outcome(al, le, cd, result)

\* One call of _evaluate_rule up to its first suspension.  result:
\*   "returned"       the call returned
\*   "suspended"      the alert is committed, the call awaits _send_notifications
\*   "create_raised"  db.commit() raised in _create_alert
\*   "resolve_raised" db.commit() raised in the auto-resolve branch
\*   "full"           the alerts table of the model is full
_evaluate_rule(al, le, cd, rule_key, current_time, commit_ok, first, tie) ==
  LET rule == rules[rule_key] IN
  IF InCooldown(cd, rule_key, current_time)
    THEN Outcome(al, le, cd, "returned")
  ELSE IF EvaluatedRecently(le, rule_key, current_time)
    THEN Outcome(al, le, cd, "returned")
  ELSE IF LatestMetrics(rule) = {}
    THEN Outcome(al, le, cd, "returned")
  ELSE
    LET latest_metric == FirstMetric(rule, tie) IN
    IF NotRecent(current_time, latest_metric)
      THEN Outcome(al, le, cd, "returned")
    ELSE
      LET condition_met == _evaluate_condition(latest_metric.value,
                               rule.threshold_value, rule.comparison_operator)
          le2 == [le EXCEPT ![rule_key] = current_time]
          active == ActiveAlerts(al, rule_key)
      IN
      IF condition_met
        THEN IF active = {}
               THEN IF rule.machine_id \notin DOMAIN machines
                      THEN Outcome(al, le2,
                                   CooldownStarted(cd, rule_key, current_time),
                                   "returned")
                    ELSE IF ~commit_ok
                      THEN CommitRaised(al, le2, cd, rule_key, current_time,
                                        "create_raised")
                    ELSE IF Len(al) >= MaxAlerts THEN Outcome(al, le2, cd, "full")
                    ELSE Outcome(Append(al, NewAlert(rule_key, current_time, "engine")),
                                 le2, cd, "suspended")
               ELSE Outcome(al, le2, cd, "returned")
        ELSE IF active # {}
               THEN IF ~commit_ok
                      THEN CommitRaised(al, le2, cd, rule_key, current_time,
                                        "resolve_raised")
                    ELSE Outcome(
                      [al EXCEPT ![FirstAlert(active, first)] =
                         AutoResolved(@, current_time)],
                      le2, cd, "returned")
               ELSE Outcome(al, le2, cd, "returned")

\* The state of the loop after the rules of todo; raised is the commit that
\* raised, if one did.
LoopState(al, le, cd, pc, todo, cur, raised) ==
  [alerts |-> al, le |-> le, cd |-> cd, pc |-> pc, todo |-> todo, cur |-> cur,
   raised |-> raised]

\* The for loop of _evaluate_alert_rules over the rules still to do, up to
\* the next suspension.  A raised commit leaves the sweep's session unusable,
\* so the rules after it raise at their first query and change nothing.
RECURSIVE RunRules(_, _, _, _, _, _, _)
RunRules(al, le, cd, todo, failing, first, tie) ==
  IF todo = <<>>
    THEN LoopState(al, le, cd, "sleep", <<>>, NoEvaluation, <<>>)
  ELSE
    LET ev == _evaluate_rule(al, le, cd, Head(todo), now, failing # Head(todo),
                             first, tie)
    IN CASE ev.result = "returned" ->
              RunRules(ev.alerts, ev.le, ev.cd, Tail(todo), failing, first, tie)
         [] ev.result = "suspended" ->
              LoopState(ev.alerts, ev.le, ev.cd, "notify", Tail(todo),
                        [rule |-> Head(todo), time |-> now], <<>>)
         [] ev.result \in {"create_raised", "resolve_raised"} ->
              LoopState(ev.alerts, ev.le, ev.cd, "sleep", <<>>, NoEvaluation,
                        <<[kind |-> ev.result, rule |-> Head(todo), time |-> now]>>)
         [] OTHER ->
              LoopState(ev.alerts, ev.le, ev.cd, "full", <<>>, NoEvaluation, <<>>)

\* Orders in which .all() may return the rows of a set of rules.
Orders(S) ==
  {q \in [1..Cardinality(S) -> S] :
     \A i, j \in 1..Cardinality(S) : i # j => q[i] # q[j]}

\* The rule whose commit raises in one run of the loop (None: no commit does).
FailChoices ==
  IF Len(fault_log) < fault_budget THEN DOMAIN rules \cup {None} ELSE {None}

\* The loop's state after a run of RunRules.
Resume(out) ==
  /\ out.pc # "full"
  /\ alerts' = out.alerts
  /\ last_evaluations' = out.le
  /\ cooldown_periods' = out.cd
  /\ sweep_pc' = out.pc
  /\ sweep_todo' = out.todo
  /\ sweep_cur' = out.cur
  /\ fault_log' = fault_log \o out.raised

\* _alert_loop wakes up and _evaluate_alert_rules runs over the enabled rules.
SweepRun ==
  /\ sweep_pc = "sleep"
  /\ slept
  /\ \E order \in Orders({r \in DOMAIN rules : rules[r].enabled}),
        failing \in FailChoices, first \in 1..MaxAlerts, tie \in Values :
       Resume(RunRules(alerts, last_evaluations, cooldown_periods, order,
                       failing, first, tie))
  /\ slept' = FALSE
  /\ UNCHANGED elsewhere
  /\ UNCHANGED <<now, later, rules, metrics, fault_budget, requests_left,
                 alert_manager>>

\* The channels _send_notifications has a branch for, and a name it has no
\* branch for.
Channels == {"email", "slack", "webhook", "sms"}

\* How a call of _send_email_notification, _send_slack_notification or
\* _send_webhook_notification ends: the message went out; the send raises;
\* the peer answers with a status that is not a success.  The last two are
\* logged in the helper, which returns normally in every case.
SendResults == {"sent", "raised", "refused"}
SendFailures == {"raised", "refused"}

\* One result for every entry of the rule's list.
Results(channels) == [DOMAIN channels -> SendResults]

\* channel == "email" and alert_config.get("email_enabled", False), and the
\* like for slack and webhook.
Enabled(cfg, channel) ==
  /\ channel \in {"email", "slack", "webhook"}
  /\ cfg[channel]

\* The loop of _send_notifications that gives up at the first failure.
RECURSIVE Attempts_abort(_, _, _, _)
Attempts_abort(channels, cfg, results, i) ==
  IF i > Len(channels) THEN <<>>
  ELSE IF ~Enabled(cfg, channels[i])
    THEN Attempts_abort(channels, cfg, results, i + 1)
  ELSE IF results[i] \in SendFailures
    THEN <<[channel |-> channels[i], result |-> results[i]]>>
  ELSE <<[channel |-> channels[i], result |-> results[i]]>>
         \o Attempts_abort(channels, cfg, results, i + 1)

\* The loop of _send_notifications from entry i on: the calls of the send
\* helpers, in order.  Whatever a call does, the loop goes on.
RECURSIVE Attempts(_, _, _, _)
Attempts(channels, cfg, results, i) ==
  IF i > Len(channels) THEN <<>>
  ELSE IF ~Enabled(cfg, channels[i])
    THEN Attempts(channels, cfg, results, i + 1)
  ELSE <<[channel |-> channels[i], result |-> results[i]]>>
         \o Attempts(channels, cfg, results, i + 1)

\* What a call of _send_notifications did when it returns: the rule's
\* channels, and the sends attempted.  Without a configuration row it
\* returns at once.
Notified(named, attempts) == [named |-> named, attempts |-> attempts]

_send_notifications(channels, cfg, results) ==
  IF ~cfg.row THEN Notified(channels, <<>>)
  ELSE Notified(channels, Attempts(channels, cfg, results, 1))

\* _send_notifications returns to _create_alert, _evaluate_rule sets the
\* cooldown, and the loop goes on with the remaining rules.
NotifyReturn ==
  /\ sweep_pc = "notify"
  /\ \E failing \in FailChoices, first \in 1..MaxAlerts, tie \in Values :
       Resume(RunRules(alerts, last_evaluations,
                       CooldownStarted(cooldown_periods, sweep_cur.rule,
                                       sweep_cur.time),
                       sweep_todo, failing, first, tie))
  /\ \E results \in Results(notification_channels[sweep_cur.rule]) :
       notified' = _send_notifications(notification_channels[sweep_cur.rule],
                                       config, results)
  /\ UNCHANGED <<hub_vars, ingest_vars, notification_channels, config,
                 client_vars>>
  /\ UNCHANGED <<now, later, rules, metrics, slept, fault_budget, requests_left,
                 alert_manager>>

\* _send_notifications raises outside its per-channel try (the configuration
\* query fails): the exception leaves _create_alert and _evaluate_rule before
\* the cooldown is set, is logged by _evaluate_alert_rules, and the loop goes
\* on with the remaining rules.
NotifyRaise ==
  /\ sweep_pc = "notify"
  /\ Len(fault_log) < fault_budget
  /\ \E first \in 1..MaxAlerts, tie \in Values :
       LET out == RunRules(alerts, last_evaluations, cooldown_periods,
                           sweep_todo, None, first, tie)
       IN Resume([out EXCEPT !.raised =
                    <<[kind |-> "notify", rule |-> sweep_cur.rule,
                       time |-> sweep_cur.time]>>])
  /\ UNCHANGED elsewhere
  /\ UNCHANGED <<now, later, rules, metrics, slept, fault_budget, requests_left,
                 alert_manager>>

\* _send_notifications of rule_key gives up control: a configuration row
\* exists and the rule names an enabled channel whose helper awaits an HTTP
\* request (slack, webhook; the e-mail helper uses smtplib and never awaits).
Awaits(rule_key) ==
  /\ config.row
  /\ \E i \in DOMAIN notification_channels[rule_key] :
       /\ notification_channels[rule_key][i] \in {"slack", "webhook"}
       /\ Enabled(config, notification_channels[rule_key][i])

\* The manager after start(): is_running, with one _alert_loop task.
Started == [is_running |-> TRUE, alert_tasks |-> 1]

\* The manager after stop(): the task has been cancelled and awaited.
Stopped == [is_running |-> FALSE, alert_tasks |-> 0]

\* start() without its test of is_running: every call creates a task.
start_unguarded ==
  /\ alert_manager' = [is_running |-> TRUE,
                       alert_tasks |-> alert_manager.alert_tasks + 1]
  /\ sweep_pc' = IF alert_manager.is_running THEN sweep_pc ELSE "sleep"
  /\ slept' = IF alert_manager.is_running THEN slept ELSE TRUE
  /\ UNCHANGED elsewhere
  /\ UNCHANGED <<now, later, rules, metrics, alerts, last_evaluations,
                 cooldown_periods, sweep_todo, sweep_cur, fault_budget,
                 fault_log, requests_left>>

\* AlertManager.start(): returns at once when is_running; otherwise sets
\* is_running and creates the _alert_loop task, which begins with a sweep.
start ==
  /\ IF alert_manager.is_running
       THEN UNCHANGED <<alert_manager, sweep_pc, slept>>
       ELSE /\ alert_manager' = Started
            /\ sweep_pc' = "sleep"
            /\ slept' = TRUE
  /\ UNCHANGED elsewhere
  /\ UNCHANGED <<now, later, rules, metrics, alerts, last_evaluations,
                 cooldown_periods, sweep_todo, sweep_cur, fault_budget,
                 fault_log, requests_left>>

\* AlertManager.stop(): is_running = False, alert_task.cancel(), await the
\* task.  The task is suspended in asyncio.sleep or in an await of
\* _send_notifications.  CancelledError is raised there; it is no Exception
\* (Python 3.8 and later), so no except clause of the send helpers, of
\* _send_notifications or of _evaluate_alert_rules takes it: it leaves
\* _create_alert before _evaluate_rule assigns the cooldown, skips the rules
\* still to do, and ends _alert_loop at its except CancelledError: break.
stop ==
  /\ sweep_pc \in {"sleep", "notify"}
  /\ sweep_pc = "notify" => Awaits(sweep_cur.rule)
  /\ sweep_pc' = "stopped"
  /\ sweep_todo' = <<>>
  /\ sweep_cur' = NoEvaluation
  /\ alert_manager' = Stopped
  /\ UNCHANGED elsewhere
  /\ UNCHANGED <<now, later, rules, metrics, alerts, last_evaluations,
                 cooldown_periods, slept, fault_budget, fault_log,
                 requests_left>>

\* ------------------------------------------------------------ environment

\* Time passes; the loop's asyncio.sleep elapses.
Tick ==
  /\ later # <<>>
  /\ now' = Head(later)
  /\ later' = Tail(later)
  /\ slept' = TRUE
  /\ UNCHANGED elsewhere
  /\ UNCHANGED <<rules, metrics, alerts, last_evaluations, cooldown_periods,
                 sweep_pc, sweep_todo, sweep_cur, fault_budget, fault_log,
                 requests_left,
                 alert_manager>>

\* The metrics table after db.add(db_metric); db.commit().  Rows are never
\* updated, so a row older than another row of its machine and metric type
\* can never again be the first row of order_by(timestamp.desc()): the
\* table is kept as the rows that are latest for their machine and metric
\* type, which are the rows the queries of this module can return.
\* In runs that prune and summarise, every row is kept, under a new id.
Stored(table, db_metric) ==
  LET same == {m \in table : m.machine_id = db_metric.machine_id
                              /\ m.metric_type = db_metric.metric_type}
      ids == {m.id : m \in table}
      free == (1..(Cardinality(table) + 1)) \ ids
      id == CHOOSE i \in free : \A j \in free : i <= j
  IN IF feed.history THEN table \cup {[db_metric EXCEPT !.id = id]}
     ELSE IF \E m \in same : m.timestamp > db_metric.timestamp THEN table
     ELSE (table \ {m \in same : m.timestamp < db_metric.timestamp})
            \cup {db_metric}

\* A record of a request body (MetricDataBase; MetricDataCreate adds
\* machine_id and timestamp).
Samples(machine_ids, timestamps) ==
  [id : {0}, machine_id : machine_ids, metric_type : feed.metric_types,
   component_name : feed.components, value : feed.values, unit : feed.units,
   timestamp : timestamps]

SeqsOf(S, sizes) == UNION {[1..n -> S] : n \in sizes}

\* The timestamps a request may carry: none, or, from agents that stamp
\* their requests, an instant up to now.
Stamps ==
  {NoTime} \cup (IF feed.stamped THEN {t \in TimePoints : t <= now} ELSE {})

\* The timestamps the records of a batch may carry in the request body.
RecordStamps == IF feed.record_stamps THEN Stamps ELSE {NoTime}

\* Request bodies of POST /metrics/batch.
MetricsBatches ==
  [machine_id : feed.machine_ids,
   metrics : SeqsOf(Samples({None}, RecordStamps), feed.sizes),
   timestamp : Stamps]

\* A record of a batch parsed as MetricDataBase: the schema has no field
\* timestamp, and a key the schema does not have is dropped.
MetricDataBase(record) == [record EXCEPT !.timestamp = NoTime]

\* The timestamps of a request: the batch's and each record's.
Carried(batch_stamp, record_stamps) ==
  [batch |-> batch_stamp, records |-> record_stamps]

\* The table after db.add of the rows and db.commit().
RECURSIVE StoredAll(_, _)
StoredAll(table, db_metrics) ==
  IF db_metrics = <<>> THEN table
  ELSE StoredAll(Stored(table, Head(db_metrics)), Tail(db_metrics))

\* What the caller gets, and what the request did: the status code, one
\* outcome for every row of the response body, the number of rows committed,
\* and, of the request, its size and the positions of its invalid records.
Response(endpoint, status, cause, outcomes, persisted, size, invalid) ==
  [endpoint |-> endpoint, status |-> status, cause |-> cause,
   outcomes |-> outcomes, persisted |-> persisted, size |-> size,
   invalid |-> invalid, carried |-> Carried(NoTime, <<>>), stored_at |-> <<>>]

NoResponse == Response(None, 0, None, <<>>, 0, 0, {})

\* A value that is not finite, a unit that does not go with the metric type
\* (cpu_usage is a percentage), a machine that is not registered.
Infinity == 1000000
InvalidSample(sample, machine_id) ==
  \/ sample.value = Infinity
  \/ sample.unit # "%"
  \/ machine_id \notin DOMAIN machines

InvalidAt(samples, machine_id) ==
  {i \in DOMAIN samples :
     InvalidSample(samples[i], IF machine_id # None THEN machine_id
                               ELSE samples[i].machine_id)}

\* The commit of an ingestion request may raise in runs whose feed says so.
CommitChoices == IF feed.commit_fails THEN BOOLEAN ELSE {TRUE}

\* The machines table after the failed commit of a batch that had already
\* assigned the watermark of its machine to timestamp.
RolledBack_kept(ms, machine_id, timestamp) ==
  [ms EXCEPT ![machine_id] = [last_seen |-> timestamp,
                              last_metrics_update |-> timestamp]]

\* The machines table after a failed commit: get_db closes the session
\* without a commit, the transaction is rolled back.
RolledBack(ms, machine_id, timestamp) == ms

\* POST /metrics/batch
submit_metrics_batch ==
  /\ \E batch \in MetricsBatches, commit_ok \in CommitChoices :
       /\ feed.history => Cardinality(metrics) + Len(batch.metrics) <= MaxSamples
       /\ LET timestamp == IF batch.timestamp # NoTime THEN batch.timestamp ELSE now
              db_metrics == [i \in DOMAIN batch.metrics |->
                               [MetricDataBase(batch.metrics[i]) EXCEPT
                                  !.machine_id = batch.machine_id,
                                  !.timestamp = timestamp]]
              size == Len(batch.metrics)
              invalid == InvalidAt(batch.metrics, batch.machine_id)
          IN IF batch.machine_id \notin DOMAIN machines
               THEN /\ response' = Response("submit_metrics_batch", 404,
                                            "unknown_machine", <<>>, 0, size, invalid)
                    /\ UNCHANGED <<metrics, machines>>
             ELSE IF ~commit_ok
               THEN /\ response' = Response("submit_metrics_batch", 500,
                                            "commit_raised", <<>>, 0, size, invalid)
                    /\ machines' = RolledBack(machines, batch.machine_id, timestamp)
                    /\ UNCHANGED metrics
             ELSE /\ metrics' = StoredAll(metrics, db_metrics)
                  /\ machines' = [machines EXCEPT ![batch.machine_id] =
                                    [last_seen |-> timestamp,
                                     last_metrics_update |-> timestamp]]
                  /\ response' =
                       [Response("submit_metrics_batch", 200, "ok",
                                 [i \in 1..size |-> "stored"], size, size,
                                 invalid)
                          EXCEPT !.carried =
                                   Carried(batch.timestamp,
                                           [i \in 1..size |->
                                              batch.metrics[i].timestamp]),
                                 !.stored_at =
                                   [i \in 1..size |-> db_metrics[i].timestamp]]
  /\ UNCHANGED <<now, later, rules, alerts, last_evaluations, cooldown_periods,
                 sweep_pc, sweep_todo, sweep_cur, slept, fault_budget,
                 fault_log, requests_left, feed, report,
                 alert_manager>>
  /\ UNCHANGED <<hub_vars, notify_vars, client_vars>>

\* DELETE /machines/{machine_id} of a registered machine: the rows of
\* hardware_components of the machine and the machine's row are deleted;
\* alert_rules, alerts and metrics are left as they are.
delete_machine ==
  /\ \E machine_id \in DOMAIN machines :
       machines' = [m \in DOMAIN machines \ {machine_id} |-> machines[m]]
  /\ UNCHANGED <<alert_vars, hub_vars, notify_vars, client_vars, feed, response, report>>

\* What a prune or a summary reports, and what it read and did: the count
\* reported, the cutoff or start of the window, the rows deleted, and of a
\* summary the statistics of cpu_usage.
Report(endpoint, count, cutoff, dry_run, deleted, stats) ==
  [endpoint |-> endpoint, count |-> count, cutoff |-> cutoff,
   dry_run |-> dry_run, deleted |-> deleted, stats |-> stats]

Stats(min, max, sum, latest) ==
  [min |-> min, max |-> max, sum |-> sum, latest |-> latest]

NoStats == Stats(0, 0, 0, 0)
NoReport == Report(None, 0, NoTime, FALSE, {}, NoStats)

\* filter(MetricModel.timestamp <= cutoff_date)
Expired_inclusive(table, cutoff_date) ==
  {m \in table : m.timestamp <= cutoff_date}

\* filter(MetricModel.timestamp < cutoff_date)
Expired(table, cutoff_date) ==
  {m \in table : m.timestamp < cutoff_date}

\* DELETE /metrics/cleanup?days=..&dry_run=..: count the rows older than the
\* cutoff, delete them unless dry_run, report the count.
CleanupDays == {1}
cleanup_old_metrics ==
  /\ \E days \in CleanupDays, dry_run \in BOOLEAN :
       LET cutoff_date == now - days * SecondsPerDay
           old == Expired(metrics, cutoff_date)
           count == Cardinality(old)
       IN /\ metrics' = IF dry_run THEN metrics ELSE metrics \ old
          /\ report' = Report("cleanup_old_metrics", count, cutoff_date, dry_run,
                              IF dry_run THEN {} ELSE old, NoStats)
  /\ UNCHANGED <<now, later, rules, alerts, last_evaluations, cooldown_periods,
                 sweep_pc, sweep_todo, sweep_cur, slept, fault_budget,
                 fault_log, requests_left,
                 alert_manager>>
  /\ UNCHANGED <<hub_vars, notify_vars, client_vars, machines, feed, response>>

\* MetricsProcessor._cleanup_old_metrics, once in every pass of the
\* processing loop: delete the rows older than the retention period, commit
\* if there were any.
_cleanup_old_metrics ==
  /\ LET cutoff_date == now - RetentionDays * SecondsPerDay
         old == Expired(metrics, cutoff_date)
         deleted_count == Cardinality(old)
     IN /\ metrics' = metrics \ old
        /\ report' = Report("_cleanup_old_metrics", deleted_count, cutoff_date,
                            FALSE, old, NoStats)
  /\ UNCHANGED <<now, later, rules, alerts, last_evaluations, cooldown_periods,
                 sweep_pc, sweep_todo, sweep_cur, slept, fault_budget,
                 fault_log, requests_left,
                 alert_manager>>
  /\ UNCHANGED <<hub_vars, notify_vars, client_vars, machines, feed, response>>

\* sum(values) over the rows of a query.
RECURSIVE SumOf(_)
SumOf(rows) ==
  IF rows = {} THEN 0
  ELSE LET m == CHOOSE r \in rows : TRUE IN m.value + SumOf(rows \ {m})

Least(ns) == CHOOSE n \in ns : \A o \in ns : n <= o
Greatest(ns) == CHOOSE n \in ns : \A o \in ns : o <= n

\* GET /metrics/summary/{machine_id}?hours=..  For cpu_usage: the rows of
\* the machine with timestamp >= start_time, in the order the database
\* returns them (the query has no order_by); count, min, max and sum of
\* their values, and as latest the value of the last row returned.
SummaryHours == {24}
get_metrics_summary ==
  /\ \E machine_id \in DOMAIN machines, hours \in SummaryHours :
       LET start_time == now - hours * 3600
           rows == {m \in metrics : /\ m.machine_id = machine_id
                                     /\ m.metric_type = "cpu_usage"
                                     /\ m.timestamp >= start_time}
           values == {m.value : m \in rows}
       IN IF rows = {}
            THEN report' = Report("get_metrics_summary", 0, start_time, FALSE,
                                  {}, NoStats)
          ELSE \E last \in rows :
                 report' = Report("get_metrics_summary", Cardinality(rows),
                                  start_time, FALSE, {},
                                  Stats(Least(values), Greatest(values),
                                        SumOf(rows), last.value))
  /\ UNCHANGED <<alert_vars, hub_vars, notify_vars, client_vars, machines, feed, response>>

\* impact_factors: the ranges (min_val, max_val, penalty) of every scored
\* metric type, and ten times its weight.
ImpactFactors ==
  [cpu_usage |->
     [ranges |-> <<<<0, 50, 0>>, <<50, 80, 5>>, <<80, 95, 15>>, <<95, 100, 25>>>>,
      weight |-> 10],
   memory_usage |->
     [ranges |-> <<<<0, 60, 0>>, <<60, 85, 5>>, <<85, 95, 15>>, <<95, 100, 25>>>>,
      weight |-> 10],
   cpu_temperature |->
     [ranges |-> <<<<0, 60, 0>>, <<60, 75, 5>>, <<75, 85, 15>>, <<85, 100, 30>>>>,
      weight |-> 15],
   gpu_temperature |->
     [ranges |-> <<<<0, 70, 0>>, <<70, 85, 5>>, <<85, 95, 15>>, <<95, 120, 25>>>>,
      weight |-> 12],
   disk_usage |->
     [ranges |-> <<<<0, 80, 0>>, <<80, 90, 3>>, <<90, 95, 10>>, <<95, 100, 20>>>>,
      weight |-> 8]]

\* for min_val, max_val, penalty in ranges: if min_val <= latest_value <
\* max_val: ... break -- the first range that holds the value, if any.
FirstRange(ranges, latest_value) ==
  {i \in DOMAIN ranges :
     /\ ranges[i][1] <= latest_value /\ latest_value < ranges[i][2]
     /\ \A j \in 1..(i - 1) :
          ~(ranges[j][1] <= latest_value /\ latest_value < ranges[j][2])}

\* MetricsProcessor._calculate_health_impact, in tenths of a point.
_calculate_health_impact(metric_type, latest_value) ==
  IF metric_type \notin DOMAIN ImpactFactors THEN 0
  ELSE LET factor == ImpactFactors[metric_type]
           found == FirstRange(factor.ranges, latest_value)
       IN IF found = {} THEN 0
          ELSE LET i == CHOOSE j \in found : TRUE
               IN factor.ranges[i][3] * factor.weight

\* What _analyze_machine_metrics has computed for a machine: the latest
\* value and the health impact of every metric type, and the health score
\* (in tenths).
Analysis(machine_id, latest, health_impact, health_score) ==
  [endpoint |-> "_analyze_machine_metrics", machine_id |-> machine_id,
   latest |-> latest, health_impact |-> health_impact,
   health_score |-> health_score]

RECURSIVE Total(_, _)
Total(f, keys) ==
  IF keys = {} THEN 0
  ELSE LET k == CHOOSE x \in keys : TRUE IN f[k] + Total(f, keys \ {k})

\* MetricsProcessor._process_metrics_batch for one machine: the rows of the
\* last five minutes, grouped by metric type; _analyze_machine_metrics
\* takes values[-1] of each unordered group as its latest value and lowers
\* the health score of 100 by the impact of each.
_analyze_machine_metrics ==
  /\ \E machine_id \in DOMAIN machines :
       LET cutoff_time == now - 300
           recent == {m \in metrics : /\ m.machine_id = machine_id
                                       /\ m.timestamp >= cutoff_time}
           types == {m.metric_type : m \in recent}
       IN /\ recent # {}
          /\ \E latest \in [types -> {m.value : m \in recent}] :
               /\ \A t \in types :
                    \E m \in recent : m.metric_type = t /\ m.value = latest[t]
               /\ LET health_impact ==
                        [t \in types |-> _calculate_health_impact(t, latest[t])]
                  IN report' = Analysis(machine_id, latest, health_impact,
                                        1000 - Total(health_impact, types))
  /\ UNCHANGED <<alert_vars, hub_vars, notify_vars, client_vars, machines, metrics, feed,
                 response>>

\* POST /metrics with a body of size records (List[MetricDataCreate]).  The
\* loop raises at its first record, the only one it reads: HTTPException 404
\* when the record's machine is not registered, else TypeError, because
\* metric.dict() already holds the key timestamp that MetricModel(...) is
\* given a second time.  With no record the request commits nothing.
submit_metrics ==
  /\ \E size \in feed.sizes, metric \in Samples(feed.machine_ids, Stamps) :
       LET invalid == InvalidAt(<<metric>>, None)
       IN response' =
            IF size = 0
              THEN Response("submit_metrics", 200, "ok", <<>>, 0, size, {})
            ELSE IF metric.machine_id \notin DOMAIN machines
              THEN Response("submit_metrics", 404, "unknown_machine", <<>>, 0,
                            size, invalid)
            ELSE Response("submit_metrics", 500, "type_error", <<>>, 0, size,
                          invalid)
  /\ UNCHANGED <<alert_vars, hub_vars, notify_vars, client_vars, machines, feed, report>>

\* One more operator request has been served.
Served ==
  /\ requests_left > 0
  /\ requests_left' = requests_left - 1

\* PUT /alerts/rules/{rule_id} with {enabled: ...}.
update_alert_rule ==
  /\ \E rule_id \in DOMAIN rules, enabled \in BOOLEAN :
       /\ rules[rule_id].enabled # enabled
       /\ rules' = [rules EXCEPT ![rule_id].enabled = enabled]
  /\ UNCHANGED elsewhere
  /\ UNCHANGED <<now, later, metrics, alerts, last_evaluations, cooldown_periods,
                 sweep_pc, sweep_todo, sweep_cur, slept, fault_budget,
                 fault_log,
                 alert_manager>>
  /\ Served

\* if notes: alert.notes = notes
Noted(alert, notes) ==
  IF notes # None THEN [alert EXCEPT !.notes = notes] ELSE alert

\* One pass of the loop of bulk_acknowledge_alerts over alert_ids.
Acknowledged(al, alert_ids, notes) ==
  [i \in AlertIds(al) |->
     IF i \in alert_ids /\ al[i].status = "active"
       THEN Noted([al[i] EXCEPT !.status = "acknowledged",
                                !.acknowledged_at = now,
                                !.acknowledged_by = "admin"], notes)
       ELSE al[i]]

\* POST /alerts/bulk-acknowledge
bulk_acknowledge_alerts ==
  /\ \E alert_ids \in SUBSET (1..MaxAlerts), notes \in NotesInputs :
       /\ alert_ids # {}
       /\ alerts' = Acknowledged(alerts, alert_ids, notes)
  /\ alerts' # alerts
  /\ UNCHANGED elsewhere
  /\ UNCHANGED <<now, later, rules, metrics, last_evaluations, cooldown_periods,
                 sweep_pc, sweep_todo, sweep_cur, slept, fault_budget,
                 fault_log,
                 alert_manager>>
  /\ Served

\* One pass of the loop of bulk_resolve_alerts over alert_ids.
Resolved(al, alert_ids, notes) ==
  [i \in AlertIds(al) |->
     IF i \in alert_ids /\ al[i].status # "resolved"
       THEN Noted([al[i] EXCEPT !.status = "resolved",
                                !.resolved_at = now,
                                !.resolved_by = "admin"], notes)
       ELSE al[i]]

\* POST /alerts/bulk-resolve
bulk_resolve_alerts ==
  /\ \E alert_ids \in SUBSET (1..MaxAlerts), notes \in NotesInputs :
       /\ alert_ids # {}
       /\ alerts' = Resolved(alerts, alert_ids, notes)
  /\ alerts' # alerts
  /\ UNCHANGED elsewhere
  /\ UNCHANGED <<now, later, rules, metrics, last_evaluations, cooldown_periods,
                 sweep_pc, sweep_todo, sweep_cur, slept, fault_budget,
                 fault_log,
                 alert_manager>>
  /\ Served

\* POST /alerts: AlertModel(**alert.dict()), status takes the column default.
create_alert ==
  /\ Len(alerts) < MaxAlerts
  /\ \E rule_id \in DOMAIN rules :
       alerts' = Append(alerts, NewAlert(rule_id, now, "api"))
  /\ UNCHANGED elsewhere
  /\ UNCHANGED <<now, later, rules, metrics, last_evaluations, cooldown_periods,
                 sweep_pc, sweep_todo, sweep_cur, slept, fault_budget,
                 fault_log,
                 alert_manager>>
  /\ Served

\* The row after update_alert has applied alert_update (fields left out of
\* the request are Unset) and stamped the status change.
Updated(alert, status, acknowledged_by, resolved_by, notes) ==
  LET a1 == IF status # Unset THEN [alert EXCEPT !.status = status] ELSE alert
      a2 == IF acknowledged_by # Unset
              THEN [a1 EXCEPT !.acknowledged_by = acknowledged_by] ELSE a1
      a0 == IF resolved_by # Unset
              THEN [a2 EXCEPT !.resolved_by = resolved_by] ELSE a2
      a3 == IF notes # Unset THEN [a0 EXCEPT !.notes = notes] ELSE a0
  IN IF status = "acknowledged" /\ a3.acknowledged_at = NoTime
       THEN [a3 EXCEPT !.acknowledged_at = now, !.acknowledged_by = "admin"]
     ELSE IF status = "resolved" /\ a3.resolved_at = NoTime
       THEN [a3 EXCEPT !.resolved_at = now, !.resolved_by = "admin"]
     ELSE a3

\* PUT /alerts/{alert_id}
update_alert ==
  /\ \E alert_id \in AlertIds(alerts), status \in AlertStatus \cup {Unset},
        acknowledged_by \in ByInputs, resolved_by \in ByInputs,
        notes \in {Unset} :
       alerts' = [alerts EXCEPT ![alert_id] =
                    Updated(@, status, acknowledged_by, resolved_by, notes)]
  /\ alerts' # alerts
  /\ UNCHANGED elsewhere
  /\ UNCHANGED <<now, later, rules, metrics, last_evaluations, cooldown_periods,
                 sweep_pc, sweep_todo, sweep_cur, slept, fault_budget,
                 fault_log,
                 alert_manager>>
  /\ Served

\* ---------------------------------------------------------- WebSocketManager

ClientIds == {"c1", "c2"}
ClientTypes == {"dashboard", "agent"}
SocketIds == 1..MaxSockets

\* A WebSocket nobody has connected yet.
NewSocket == [state |-> "new", client_id |-> None, client_type |-> None]

\* The slot of a deleted key in the entries of a dict.  del leaves it in
\* place, so an iterator that is past it or before it keeps its position.
Tombstone == [client_id |-> None, ws |-> 0]

Live(conns) == {i \in DOMAIN conns : conns[i].client_id # None}
Keys(conns) == {conns[i].client_id : i \in Live(conns)}
IndexOf(conns, client_id) ==
  CHOOSE i \in Live(conns) : conns[i].client_id = client_id
RegisteredIn(conns, ws) == \E i \in Live(conns) : conns[i].ws = ws

Compact(conns) == SelectSeq(conns, LAMBDA e : e.client_id # None)

\* self.active_connections[client_id] = websocket
SetItem(conns, client_id, ws) ==
  IF client_id \in Keys(conns)
    THEN [conns EXCEPT ![IndexOf(conns, client_id)].ws = ws]
    ELSE Append(conns, [client_id |-> client_id, ws |-> ws])

\* del self.active_connections[client_id]; the entries are packed again
\* when no iterator is looking at them.
DelItem(conns, client_id, iterating) ==
  LET deleted == [conns EXCEPT ![IndexOf(conns, client_id)] = Tombstone]
  IN IF iterating THEN deleted ELSE Compact(deleted)

\* The three maps and the tasks created, as the methods pass them on.
Hub(conns, types, seen, tasks) ==
  [conns |-> conns, types |-> types, seen |-> seen, tasks |-> tasks]

HubNow == Hub(active_connections, client_types, last_seen, spawned)

\* disconnect without its membership test: the notification task is
\* created for an id that is not registered as well.
disconnect_unguarded(h, client_id, iterating) ==
  IF client_id \in Keys(h.conns)
    THEN Hub(DelItem(h.conns, client_id, iterating),
             [k \in DOMAIN h.types \ {client_id} |-> h.types[k]],
             h.seen \ {client_id},
             IF h.types[client_id] = "agent" THEN h.tasks + 1 ELSE h.tasks)
    ELSE [h EXCEPT !.tasks = h.tasks + 1]

\* WebSocketManager.disconnect
disconnect(h, client_id, iterating) ==
  IF client_id \in Keys(h.conns)
    THEN Hub(DelItem(h.conns, client_id, iterating),
             [k \in DOMAIN h.types \ {client_id} |-> h.types[k]],
             h.seen \ {client_id},
             IF h.types[client_id] = "agent" THEN h.tasks + 1 ELSE h.tasks)
    ELSE h

\* The hub's maps become those of h.
Becomes(h) ==
  /\ active_connections' = h.conns
  /\ client_types' = h.types
  /\ last_seen' = h.seen
  /\ spawned' = h.tasks

NoBroadcast ==
  [pc |-> "idle", kind |-> None, pos |-> 0, used |-> 0, remaining |-> 0,
   ws |-> 0, client_id |-> None, disconnected_clients |-> <<>>,
   targets |-> {}, received |-> {}, failed |-> {}]

NoUnicast == [pc |-> "idle", client_id |-> None, ws |-> 0]

\* The writes of a send operation that has ended.
Writes(op, failed, succeeded) ==
  [op |-> op, failed |-> failed, succeeded |-> succeeded]

Iterating == bc.pc = "send"

\* WebSocketManager.connect: accept, register, greet; for an agent, tell the
\* dashboards with broadcast_to_dashboards.  WebSockets are numbered in the
\* order in which they connect.
connect ==
  /\ \E ws \in SocketIds, client_type \in ClientTypes, client_id \in ClientIds :
       /\ sockets[ws].state = "new"
       /\ \A earlier \in 1..(ws - 1) : sockets[earlier].state # "new"
       /\ sockets' = [sockets EXCEPT ![ws] =
                        [state |-> "open", client_id |-> client_id,
                         client_type |-> client_type]]
       /\ active_connections' = SetItem(active_connections, client_id, ws)
       /\ client_types' = [k \in DOMAIN client_types \cup {client_id} |->
                             IF k = client_id THEN client_type
                                              ELSE client_types[k]]
       /\ last_seen' = last_seen \cup {client_id}
       /\ spawned' = IF client_type = "agent" THEN spawned + 1 ELSE spawned
       /\ sent' = Writes("send_personal_message", {}, {ws})
  /\ UNCHANGED <<bc, unicast>>
  /\ UNCHANGED outside_hub

\* The peer of a connection goes away: writes to it raise from now on and
\* receive_json raises in its endpoint.
PeerCloses ==
  /\ \E ws \in SocketIds :
       /\ sockets[ws].state \in {"open", "stuck"}
       /\ sockets' = [sockets EXCEPT ![ws].state = "closed"]
  /\ UNCHANGED <<active_connections, client_types, last_seen, bc, unicast,
                 spawned, sent>>
  /\ UNCHANGED outside_hub

\* The peer of a connection stops reading: writes to it do not complete.
PeerStalls ==
  /\ \E ws \in SocketIds :
       /\ sockets[ws].state = "open"
       /\ sockets' = [sockets EXCEPT ![ws].state = "stuck"]
  /\ UNCHANGED <<active_connections, client_types, last_seen, bc, unicast,
                 spawned, sent>>
  /\ UNCHANGED outside_hub

\* websocket_endpoint: receive_json raised, the handler calls
\* disconnect(websocket, client_id) with the client_id of its path.
websocket_endpoint ==
  /\ \E ws \in SocketIds :
       /\ sockets[ws].state = "closed"
       /\ sockets' = [sockets EXCEPT ![ws].state = "gone"]
       /\ Becomes(disconnect(HubNow, sockets[ws].client_id, Iterating))
  /\ UNCHANGED <<bc, unicast, sent>>
  /\ UNCHANGED outside_hub

\* The coroutine and the hub after a step of a broadcast.
Step(b, h) == [bc |-> b, h |-> h]

\* The clean-up loop of a broadcast: disconnect every client of
\* disconnected_clients that is still a key, then return.
RECURSIVE CleanUp(_, _)
CleanUp(clients, h) ==
  IF clients = <<>> THEN h
  ELSE CleanUp(Tail(clients), disconnect(h, Head(clients), FALSE))

\* The exception leaves the broadcast: its clean-up loop does not run.
IterationRaised(b, h) ==
  Step([b EXCEPT !.pc = "raised", !.ws = 0, !.client_id = None],
       [h EXCEPT !.conns = Compact(h.conns)])

IterationEnded(b, h) ==
  Step([b EXCEPT !.pc = "returned", !.ws = 0, !.client_id = None],
       CleanUp(b.disconnected_clients, [h EXCEPT !.conns = Compact(h.conns)]))

\* The for loop over self.active_connections.items() from the entry after
\* b.pos up to the next send.  The iterator raises RuntimeError when the
\* dict has another size than at the start of the loop, and when it finds
\* an entry after having returned as many as the dict had.
RECURSIVE Advance(_, _)
Advance(b, h) ==
  LET ahead == {i \in Live(h.conns) : i > b.pos} IN
  IF Cardinality(Live(h.conns)) # b.used THEN IterationRaised(b, h)
  ELSE IF ahead = {} THEN IterationEnded(b, h)
  ELSE IF b.remaining = 0 THEN IterationRaised(b, h)
  ELSE
    LET i == CHOOSE j \in ahead : \A k \in ahead : j <= k
        entry == h.conns[i]
        taken == [b EXCEPT !.pos = i, !.remaining = b.remaining - 1]
    IN IF b.kind = "broadcast_to_dashboards"
            /\ h.types[entry.client_id] # "dashboard"
         THEN Advance(taken, h)
         ELSE Step([taken EXCEPT !.pc = "send", !.ws = entry.ws,
                                 !.client_id = entry.client_id], h)

\* The connections a broadcast of this kind is meant for.
Targets(conns, types, kind) ==
  {conns[i].ws : i \in {j \in Live(conns) :
     kind = "broadcast_message" \/ types[conns[j].client_id] = "dashboard"}}

\* A broadcast is called and runs to its first send.
Begun(kind, h) ==
  Advance([NoBroadcast EXCEPT !.kind = kind,
                              !.used = Cardinality(Live(h.conns)),
                              !.remaining = Cardinality(Live(h.conns)),
                              !.targets = Targets(h.conns, h.types, kind)],
          h)

\* The broadcast is suspended again or has ended.
Continues(step) ==
  /\ bc' = step.bc
  /\ Becomes(step.h)
  /\ sent' = IF step.bc.pc = "send" THEN sent
             ELSE Writes(step.bc.kind, step.bc.failed, step.bc.received)

\* WebSocketManager.broadcast_message is called.
broadcast_message ==
  /\ ~Iterating
  /\ Continues(Begun("broadcast_message", HubNow))
  /\ UNCHANGED <<sockets, unicast>>
  /\ UNCHANGED outside_hub

\* broadcast_to_dashboards starts: the call in connect, or the task that
\* disconnect created.
broadcast_to_dashboards ==
  /\ ~Iterating
  /\ spawned > 0
  /\ Continues(Begun("broadcast_to_dashboards",
                     [HubNow EXCEPT !.tasks = spawned - 1]))
  /\ UNCHANGED <<sockets, unicast>>
  /\ UNCHANGED outside_hub

\* await websocket.send_text(...) of a broadcast ends: it returns, or it
\* raises and the client is noted in disconnected_clients; then the loop
\* goes on.  A write to a peer that does not read ends only when the peer
\* goes away: send_text is awaited without a timeout.
BroadcastSendEnds ==
  /\ bc.pc = "send"
  /\ sockets[bc.ws].state # "stuck"
  /\ LET b == IF sockets[bc.ws].state = "open"
                THEN [bc EXCEPT !.received = @ \cup {bc.ws}]
                ELSE [bc EXCEPT !.failed = @ \cup {bc.ws},
                                !.disconnected_clients = Append(@, bc.client_id)]
     IN Continues(Advance(b, HubNow))
  /\ UNCHANGED <<sockets, unicast>>
  /\ UNCHANGED outside_hub

\* WebSocketManager.send_to_client up to its send.
send_to_client ==
  /\ unicast.pc = "idle"
  /\ \E client_id \in Keys(active_connections) :
       unicast' = [pc |-> "send", client_id |-> client_id,
                   ws |-> active_connections[IndexOf(active_connections,
                                                     client_id)].ws]
  /\ UNCHANGED <<active_connections, client_types, last_seen, sockets, bc,
                 spawned, sent>>
  /\ UNCHANGED outside_hub

\* The send of send_to_client ends.  In the except branch
\* self.active_connections[client_id] raises KeyError when the key has gone
\* meanwhile, otherwise the client is disconnected.
SendToClientEnds ==
  /\ unicast.pc = "send"
  /\ sockets[unicast.ws].state # "stuck"
  /\ IF sockets[unicast.ws].state = "open"
       THEN /\ sent' = Writes("send_to_client", {}, {unicast.ws})
            /\ UNCHANGED <<active_connections, client_types, last_seen, spawned>>
       ELSE /\ sent' = Writes("send_to_client", {unicast.ws}, {})
            /\ Becomes(disconnect(HubNow, unicast.client_id, Iterating))
  /\ unicast' = NoUnicast
  /\ UNCHANGED <<sockets, bc>>
  /\ UNCHANGED outside_hub

\* WebSocketManager.send_personal_message: the exception of a failed write
\* is logged.
send_personal_message ==
  /\ \E ws \in SocketIds :
       /\ sockets[ws].state \in {"open", "closed"}
       /\ sent' = IF sockets[ws].state = "open"
                    THEN Writes("send_personal_message", {}, {ws})
                    ELSE Writes("send_personal_message", {ws}, {})
       /\ sent' # sent
  /\ UNCHANGED <<active_connections, client_types, last_seen, sockets, bc,
                 unicast, spawned>>
  /\ UNCHANGED outside_hub

\* data.get("type") of an incoming message.
MessageTypes == {"ping", "metrics_update", "machine_registration", "status"}

\* websocket_endpoint receives a message on a connection and calls
\* WebSocketManager.handle_message with the client_id and client_type of
\* its path: last_seen[client_id] is set, a ping is answered, an agent's
\* update is forwarded with broadcast_to_dashboards, anything else is logged.
handle_message ==
  /\ \E ws \in SocketIds, type \in MessageTypes :
       /\ sockets[ws].state = "open"
       /\ LET client_id == sockets[ws].client_id
              client_type == sockets[ws].client_type
              h == [HubNow EXCEPT !.seen = @ \cup {client_id}]
          IN IF type = "ping"
               THEN /\ Becomes(h)
                    /\ sent' = Writes("send_personal_message", {}, {ws})
                    /\ UNCHANGED bc
             ELSE IF /\ type \in {"metrics_update", "machine_registration"}
                     /\ client_type = "agent"
               THEN /\ ~Iterating
                    /\ Continues(Begun("broadcast_to_dashboards", h))
             ELSE /\ Becomes(h)
                  /\ UNCHANGED <<bc, sent>>
  /\ UNCHANGED <<sockets, unicast>>
  /\ UNCHANGED outside_hub

HubInit ==
  /\ active_connections = <<>>
  /\ client_types = << >>
  /\ last_seen = {}
  /\ sockets = [ws \in SocketIds |-> NewSocket]
  /\ bc = NoBroadcast
  /\ unicast = NoUnicast
  /\ spawned = 0
  /\ sent = Writes(None, {}, {})

AlertsStart(schedules, tables, budget) ==
  /\ now = 0
  /\ later \in schedules
  /\ rules \in tables
  /\ metrics = {}
  /\ alerts = <<>>
  /\ last_evaluations = [r \in DOMAIN rules |-> NoTime]
  /\ cooldown_periods = [r \in DOMAIN rules |-> NoTime]
  /\ sweep_pc = "sleep"
  /\ sweep_todo = <<>>
  /\ sweep_cur = NoEvaluation
  /\ slept = TRUE
  /\ fault_budget = budget
  /\ fault_log = <<>>
  /\ requests_left = MaxRequests
  /\ alert_manager = Started

AlertsInit(budget) == AlertsStart(Schedules, RuleTables, budget)

\* The alert pipeline at rest: a default rule, no sample, no instant to come.
AlertsIdle ==
  /\ now = 0
  /\ later = <<>>
  /\ rules = [r \in {"r1"} |-> RuleRow(60, 300)]
  /\ metrics = {}
  /\ alerts = <<>>
  /\ last_evaluations = [r \in DOMAIN rules |-> NoTime]
  /\ cooldown_periods = [r \in DOMAIN rules |-> NoTime]
  /\ sweep_pc = "sleep"
  /\ sweep_todo = <<>>
  /\ sweep_cur = NoEvaluation
  /\ slept = FALSE
  /\ fault_budget = 0
  /\ fault_log = <<>>
  /\ requests_left = 0
  /\ alert_manager = Started

\* ---------------------------------------------------------- specifications

\* ------------------------------------------------------- the agent's HTTPClient

\* self.max_retries and self.retry_delay
max_retries == 3
retry_delay == 1

\* What an attempt meets: a response (its status, and whether its body
\* parses to a JSON object, json.loads giving a dict, or to another JSON
\* value such as a list), or an exception of session.request.
Statuses == {200, 201, 202, 204, 400, 401, 403, 404, 422, 500, 503}
Bodies == {"object", "array"}
Raised == {"ClientError", "TimeoutError", "Exception"}
Answers ==
  [kind : {"response"}, status : Statuses, body : Bodies]
    \cup [kind : Raised, status : {0}, body : {None}]

\* No call of _request yet.
NoRequest == [pc |-> "idle", attempt |-> 0, log |-> <<>>, result |-> None]

\* What one pass of the try block does with an answer: "return" with a
\* result, or "retry".  response_data.get(...) of the 400 branch raises
\* AttributeError when the body is no JSON object, which the last except
\* clause takes like any other exception.
Handled(answer) ==
  IF answer.kind # "response" THEN [do |-> "retry", result |-> answer.kind]
  ELSE IF answer.status \in {200, 201} THEN [do |-> "return", result |-> "data"]
  ELSE IF answer.status = 204 THEN [do |-> "return", result |-> "no_content"]
  ELSE IF answer.status = 400
    THEN IF answer.body = "object"
           THEN [do |-> "return", result |-> "bad_request"]
           ELSE [do |-> "retry", result |-> "Exception"]
  ELSE IF answer.status \in {401, 403, 404}
    THEN [do |-> "return", result |-> "refused"]
  ELSE IF answer.status >= 500 THEN [do |-> "retry", result |-> "server_error"]
  ELSE [do |-> "return", result |-> "unexpected_status"]

\* HTTPClient._request is called: the loop starts with attempt 0.
_request ==
  /\ http.pc = "idle"
  /\ http' = [http EXCEPT !.pc = "attempt"]
  /\ UNCHANGED <<alert_vars, hub_vars, ingest_vars, notify_vars>>

\* An attempt ends: the result is returned, or, for an answer to retry,
\* the loop sleeps retry_delay * (attempt + 1) when attempt < max_retries
\* and returns the error otherwise.
Attempt ==
  /\ http.pc = "attempt"
  /\ \E answer \in Answers :
       LET h == Handled(answer)
           retried == h.do = "retry" /\ http.attempt < max_retries
           entry == [answer |-> answer,
                     delay |-> IF retried THEN retry_delay * (http.attempt + 1)
                               ELSE 0]
       IN http' = [http EXCEPT !.pc = IF retried THEN "sleep" ELSE "returned",
                               !.log = Append(@, entry),
                               !.result = IF retried THEN None ELSE h.result]
  /\ UNCHANGED <<alert_vars, hub_vars, ingest_vars, notify_vars>>

\* asyncio.sleep of the retry returns; continue: the next attempt.
Retry ==
  /\ http.pc = "sleep"
  /\ http' = [http EXCEPT !.pc = "attempt", !.attempt = @ + 1]
  /\ UNCHANGED <<alert_vars, hub_vars, ingest_vars, notify_vars>>

\* The machines table: m1 is registered and has not reported yet.
MachinesInit ==
  machines = [m \in Machines |-> [last_seen |-> NoTime,
                                  last_metrics_update |-> NoTime]]

\* Agents that submit one well-formed cpu_usage record of m1 at a time.
PlainFeed ==
  [machine_ids |-> Machines, values |-> Values, units |-> {"%"},
   components |-> {None}, sizes |-> {1}, stamped |-> FALSE,
   record_stamps |-> FALSE, history |-> FALSE, commit_fails |-> FALSE,
   metric_types |-> {"cpu_usage"}]

\* Agents that also submit empty and longer requests, unregistered
\* machines, values that are not finite and units that do not fit, against
\* a store whose commit may raise.
RoughFeed ==
  [machine_ids |-> Machines \cup {"m9"}, values |-> {85, Infinity},
   units |-> {"%", "GB"}, components |-> {None}, sizes |-> 0..MaxBatch, stamped |-> TRUE,
   record_stamps |-> FALSE, history |-> FALSE, commit_fails |-> TRUE,
   metric_types |-> {"cpu_usage"}]

IngestInit(agents) ==
  /\ MachinesInit
  /\ feed = agents
  /\ response = NoResponse
  /\ report = NoReport
  /\ http = NoRequest

\* No row in the configuration table, and the rows there can be.
NoConfig == [row |-> FALSE, email |-> FALSE, slack |-> FALSE, webhook |-> FALSE]
Configs ==
  {NoConfig} \cup [row : {TRUE}, email : BOOLEAN, slack : BOOLEAN,
                   webhook : BOOLEAN]

\* Rules without notification channels; no notification sent yet.
NotifyInit(cfgs, lists) ==
  /\ notification_channels \in [DOMAIN rules -> lists]
  /\ config \in cfgs
  /\ notified = Notified(<<>>, <<>>)

NotifyIdle == NotifyInit({NoConfig}, {<<>>})

InitWith(budget) ==
  /\ AlertsInit(budget)
  /\ HubInit
  /\ IngestInit(PlainFeed)
  /\ NotifyIdle

Init == InitWith(MaxFaults)

\* The engine, ingestion and the operators' bulk calls.
NextEngine ==
  \/ SweepRun
  \/ NotifyReturn
  \/ NotifyRaise
  \/ Tick
  \/ submit_metrics_batch
  \/ update_alert_rule
  \/ bulk_acknowledge_alerts
  \/ bulk_resolve_alerts

\* Every entry point.
Next ==
  \/ SweepRun
  \/ NotifyReturn
  \/ NotifyRaise
  \/ Tick
  \/ submit_metrics_batch
  \/ update_alert_rule
  \/ bulk_acknowledge_alerts
  \/ bulk_resolve_alerts
  \/ create_alert
  \/ update_alert

SpecEngine == Init /\ [][NextEngine]_vars
Spec == Init /\ [][Next]_vars

\* The engine without failures, scheduled fairly: the loop wakes up again,
\* a notification hand-off returns (its sends carry timeouts), time passes.
InitLive == InitWith(0)

NextLive ==
  \/ SweepRun
  \/ NotifyReturn
  \/ Tick
  \/ submit_metrics_batch
  \/ update_alert_rule
  \/ bulk_acknowledge_alerts
  \/ bulk_resolve_alerts

SpecLive ==
  /\ InitLive
  /\ [][NextLive]_vars
  /\ WF_vars(SweepRun)
  /\ WF_vars(NotifyReturn)
  /\ WF_vars(Tick)

\* Agents that stamp their requests and the records in them.
StampingFeed ==
  [machine_ids |-> Machines, values |-> {85}, units |-> {"%"},
   components |-> {None}, sizes |-> 0..MaxBatch, stamped |-> TRUE,
   record_stamps |-> TRUE, history |-> FALSE, commit_fails |-> FALSE,
   metric_types |-> {"cpu_usage"}]

\* Ingestion of stamped requests as time passes.
InitStamps ==
  /\ AlertsStart({<<10, 60>>}, {[r \in {"r1"} |-> RuleRow(60, 300)]}, 0)
  /\ HubInit
  /\ IngestInit(StampingFeed)
  /\ NotifyIdle

NextStamps ==
  \/ submit_metrics_batch
  \/ submit_metrics
  \/ Tick

SpecStamps == InitStamps /\ [][NextStamps]_vars

\* Agents whose requests may be stamped in the past, into a table that
\* keeps every row.
HistoryFeed ==
  [PlainFeed EXCEPT !.stamped = TRUE, !.history = TRUE, !.values = {85}]

\* Ingestion, pruning and summaries over a month.
InitPrune ==
  /\ AlertsStart(PruneSchedules, {[r \in {"r1"} |-> RuleRow(60, 300)]}, 0)
  /\ HubInit
  /\ IngestInit(HistoryFeed)
  /\ NotifyIdle

NextPrune ==
  \/ submit_metrics_batch
  \/ cleanup_old_metrics
  \/ _cleanup_old_metrics
  \/ Tick

SpecPrune == InitPrune /\ [][NextPrune]_vars

\* Ingestion and summaries over a day.
SummaryFeed == [PlainFeed EXCEPT !.stamped = TRUE, !.history = TRUE]

InitSummary ==
  /\ AlertsStart({<<10, 86410>>}, {[r \in {"r1"} |-> RuleRow(60, 300)]}, 0)
  /\ HubInit
  /\ IngestInit(SummaryFeed)
  /\ NotifyIdle

NextSummary ==
  \/ submit_metrics_batch
  \/ get_metrics_summary
  \/ Tick

SpecSummary == InitSummary /\ [][NextSummary]_vars

\* ComparisonOperator
Operators == {"gt", "lt", "eq", "gte", "lte", "ne"}

\* Agents that report values below, at and above the threshold of 80, and NaN.
ConditionFeed == [PlainFeed EXCEPT !.values = {79, 80, 81, NaN}]

\* The engine over a rule of each operator.
InitCondition ==
  /\ AlertsStart({<<10, 60>>},
                 {[r \in {"r1"} |->
                     [RuleRow(10, 60) EXCEPT !.comparison_operator = op]] :
                    op \in Operators}, 0)
  /\ HubInit
  /\ IngestInit(ConditionFeed)
  /\ NotifyIdle

NextCondition ==
  \/ SweepRun
  \/ NotifyReturn
  \/ Tick
  \/ submit_metrics_batch

SpecCondition == InitCondition /\ [][NextCondition]_vars

\* Ingestion alone, with every kind of request.
InitIngest ==
  /\ AlertsInit(0)
  /\ later = <<10, 60>>
  /\ rules = [r \in {"r1"} |-> RuleRow(60, 300)]
  /\ HubInit
  /\ IngestInit(RoughFeed)
  /\ NotifyIdle

NextIngest ==
  \/ submit_metrics_batch
  \/ submit_metrics
  \/ Tick

SpecIngest == InitIngest /\ [][NextIngest]_vars

\* The hub alone: connections come and go, publishers broadcast and send.
InitHub == AlertsIdle /\ HubInit /\ IngestInit(PlainFeed) /\ NotifyIdle

\* The engine with rules that name channels, under every configuration.
InitNotify ==
  /\ AlertsStart({<<10>>}, {[r \in {"r1"} |-> RuleRow(60, 300)]}, 0)
  /\ HubInit
  /\ IngestInit(PlainFeed)
  /\ NotifyInit(Configs, SeqsOf(Channels, 0..MaxChannels))

NextNotify ==
  \/ SweepRun
  \/ NotifyReturn
  \/ Tick
  \/ submit_metrics_batch

SpecNotify == InitNotify /\ [][NextNotify]_vars

\* The engine and its shutdown.
InitStop ==
  /\ AlertsStart(Schedules, RuleTables, 0)
  /\ HubInit
  /\ IngestInit(PlainFeed)
  /\ NotifyInit(Configs, {<<>>, <<"email">>, <<"slack">>})

NextStop ==
  \/ SweepRun
  \/ NotifyReturn
  \/ Tick
  \/ submit_metrics_batch
  \/ stop

SpecStop == InitStop /\ [][NextStop]_vars

\* The engine and the operators over a store that lets a machine be deleted
\* while rules refer to it.
InitOrphan ==
  /\ AlertsStart({<<60, 300>>}, {[r \in {"r1"} |-> RuleRow(60, 300)]}, 0)
  /\ HubInit
  /\ IngestInit(PlainFeed)
  /\ NotifyIdle

NextOrphan ==
  \/ SweepRun
  \/ NotifyReturn
  \/ Tick
  \/ submit_metrics_batch
  \/ delete_machine
  \/ bulk_resolve_alerts
  \/ update_alert

SpecOrphan == InitOrphan /\ [][NextOrphan]_vars

\* Agents that report cpu_usage of m1 per component.
ComponentFeed ==
  [PlainFeed EXCEPT !.components = {hardware_components[h] :
                                     h \in DOMAIN hardware_components}]

\* The engine with a rule for component h0 of m1 and samples per component.
InitComponent ==
  /\ AlertsStart({<<10, 60>>}, {[r \in {"r1"} |-> ComponentRule("h0")]}, 0)
  /\ HubInit
  /\ IngestInit(ComponentFeed)
  /\ NotifyIdle

NextComponent ==
  \/ SweepRun
  \/ NotifyReturn
  \/ Tick
  \/ submit_metrics_batch

SpecComponent == InitComponent /\ [][NextComponent]_vars

NextHub ==
  \/ connect
  \/ PeerCloses
  \/ PeerStalls
  \/ websocket_endpoint
  \/ broadcast_message
  \/ broadcast_to_dashboards
  \/ BroadcastSendEnds

SpecHub == InitHub /\ [][NextHub]_vars

\* The hub with every write that can end ending.
SpecHubLive == InitHub /\ [][NextHub]_vars /\ WF_vars(BroadcastSendEnds)

\* Two enabled rules on the same metric, evaluated by one sweep on one
\* session, with a commit or a notification hand-off that may raise.
InitRules ==
  /\ AlertsStart({<<10>>}, {[r \in {"r1", "r2"} |-> RuleRow(10, 60)]},
                 MaxFaults)
  /\ HubInit
  /\ IngestInit(PlainFeed)
  /\ NotifyIdle

NextRules ==
  \/ SweepRun
  \/ NotifyReturn
  \/ NotifyRaise
  \/ Tick
  \/ submit_metrics_batch

SpecRules == InitRules /\ [][NextRules]_vars

\* The manager stopped and started again while the engine runs.
InitRestart ==
  /\ AlertsStart({<<10, 60>>}, {[r \in {"r1"} |-> RuleRow(10, 60)]}, 0)
  /\ HubInit
  /\ IngestInit(PlainFeed)
  /\ NotifyInit(Configs, {<<>>, <<"slack">>})

NextRestart ==
  \/ SweepRun
  \/ NotifyReturn
  \/ Tick
  \/ submit_metrics_batch
  \/ stop
  \/ start

SpecRestart == InitRestart /\ [][NextRestart]_vars

\* Agents that report every scored metric type at the top of its scale, 100.
HealthFeed ==
  [PlainFeed EXCEPT !.metric_types = DOMAIN ImpactFactors,
                    !.values = {100}]

\* Ingestion and the analysis of the metrics processor.
InitHealth ==
  /\ AlertsStart({<<>>}, {[r \in {"r1"} |-> RuleRow(60, 300)]}, 0)
  /\ HubInit
  /\ IngestInit(HealthFeed)
  /\ NotifyIdle

NextHealth ==
  \/ submit_metrics_batch
  \/ _analyze_machine_metrics

SpecHealth == InitHealth /\ [][NextHealth]_vars

\* One request of the agent's HTTP client.
InitClient == AlertsIdle /\ HubInit /\ IngestInit(PlainFeed) /\ NotifyIdle

NextClient ==
  \/ _request
  \/ Attempt
  \/ Retry

SpecClient == InitClient /\ [][NextClient]_vars

\* The hub with the messages its connections receive.
NextMessages ==
  \/ connect
  \/ PeerCloses
  \/ websocket_endpoint
  \/ broadcast_message
  \/ broadcast_to_dashboards
  \/ BroadcastSendEnds
  \/ handle_message

SpecMessages == InitHub /\ [][NextMessages]_vars

\* The hub's four send operations.
NextSends ==
  \/ connect
  \/ PeerCloses
  \/ websocket_endpoint
  \/ broadcast_message
  \/ broadcast_to_dashboards
  \/ BroadcastSendEnds
  \/ send_to_client
  \/ SendToClientEnds
  \/ send_personal_message

SpecSends == InitHub /\ [][NextSends]_vars

\* ------------------------------------------------------------------ claims

RuleKeys == DOMAIN rules

\* Alerts of a rule in status active.
ActiveOf(r) ==
  {i \in DOMAIN alerts : alerts[i].rule_id = r /\ alerts[i].status = "active"}

\* Alerts of a rule that _create_alert stored.
EngineAlerts(r) ==
  {i \in DOMAIN alerts : alerts[i].rule_id = r /\ alerts[i].origin = "engine"}

\* This step stores a new alert of _create_alert for r.
EngineCreated(r) ==
  /\ Len(alerts') = Len(alerts) + 1
  /\ alerts'[Len(alerts')].rule_id = r
  /\ alerts'[Len(alerts')].origin = "engine"

\* A step of the loop.
EngineStep == SweepRun \/ NotifyReturn \/ NotifyRaise

\* The rule has samples and every sample that may be its latest is aged
\* within lo..hi seconds.
LatestAged(r, lo, hi) ==
  /\ LatestMetrics(rules[r]) # {}
  /\ \A m \in LatestMetrics(rules[r]) :
       now - m.timestamp >= lo /\ now - m.timestamp <= hi

\* Every sample that may be the rule's latest violates / clears its condition.
LatestViolates(r) ==
  \A m \in LatestMetrics(rules[r]) :
    _evaluate_condition(m.value, rules[r].threshold_value,
                        rules[r].comparison_operator)
LatestClears(r) ==
  \A m \in LatestMetrics(rules[r]) :
    ~_evaluate_condition(m.value, rules[r].threshold_value,
                         rules[r].comparison_operator)

\* C1: under sweeps and bulk acknowledge / resolve calls, every rule has at
\* most one alert in status active.
C1_AtMostOneActive == \A r \in RuleKeys : Cardinality(ActiveOf(r)) <= 1

\* C1 witness: a rule has fired twice and its second alert is the active one.
C1_Witness ==
  \E r \in RuleKeys :
    /\ Cardinality(EngineAlerts(r)) = 2
    /\ Cardinality(ActiveOf(r)) = 1

\* C2: with POST /alerts and PUT /alerts/{id} among the entry points, no rule
\* has two alerts in status active.
C2_NoTwoActive ==
  \A r \in RuleKeys : \A i, j \in ActiveOf(r) : i = j

\* C3: two alerts the engine created for one rule are never less than the
\* rule's cooldown_period apart: none is triggered inside (t0, t0 + C).
C3_NoCreationInCooldown ==
  \A r \in RuleKeys : \A i, j \in EngineAlerts(r) :
    ~ /\ alerts[i].triggered_at < alerts[j].triggered_at
      /\ alerts[j].triggered_at
           < alerts[i].triggered_at + rules[r].cooldown_period

\* The evaluation interval of r has elapsed since its last evaluation.
IntervalElapsed(r) ==
  \/ last_evaluations[r] = NoTime
  \/ now - last_evaluations[r] >= rules[r].evaluation_interval

\* C5: a sweep that finds the condition of an enabled rule cleared on a
\* fresh sample resolves the rule's active alert at that instant, whether or
\* not the cooldown of the alert has run out.
C5_ResolvedInsideCooldown ==
  [][(SweepRun /\ fault_log' = fault_log) =>
       \A r \in RuleKeys :
         (/\ rules[r].enabled
          /\ LatestAged(r, 0, StaleSeconds)
          /\ LatestClears(r)
          /\ IntervalElapsed(r)
          /\ now - last_evaluations[r] < SecondsPerDay
          /\ ActiveOf(r) # {})
         => \E i \in ActiveOf(r) :
              /\ alerts'[i].status = "resolved"
              /\ alerts'[i].resolved_by = "system"
              /\ alerts'[i].resolved_at = now]_vars

\* C6: while a rule has an alert in status acknowledged, no evaluation
\* creates another alert for the rule.
C6_NoCreationWhileAcknowledged ==
  [][\A r \in RuleKeys :
       (\E i \in DOMAIN alerts :
          alerts[i].rule_id = r /\ alerts[i].status = "acknowledged")
       => ~EngineCreated(r)]_vars

AllowedTransitions ==
  {<<"active", "acknowledged">>, <<"active", "resolved">>,
   <<"acknowledged", "resolved">>}

\* C7: the status of an alert changes only from active to acknowledged, from
\* active to resolved or from acknowledged to resolved; resolved is final.
C7_OnlyForwardTransitions ==
  [][\A i \in DOMAIN alerts :
       alerts'[i].status # alerts[i].status
       => <<alerts[i].status, alerts'[i].status>> \in AllowedTransitions]_vars

\* This step of the loop evaluated r, created an alert for it or changed one
\* of its alerts.
EngineTouched(r) ==
  \/ last_evaluations'[r] # last_evaluations[r]
  \/ EngineCreated(r)
  \/ \E i \in DOMAIN alerts : alerts[i].rule_id = r /\ alerts'[i] # alerts[i]

\* The latest sample of r is more than age seconds old.
OlderThan(r, age) ==
  /\ LatestMetrics(rules[r]) # {}
  /\ \A m \in LatestMetrics(rules[r]) : now - m.timestamp > age

\* C8: a rule whose latest sample is older than twice its
\* evaluation_interval is skipped: no alert is created or resolved and its
\* last evaluation time stays.
C8_SkippedBeyondTwoIntervals ==
  [][EngineStep =>
       \A r \in RuleKeys :
         (r # sweep_cur.rule /\ OlderThan(r, 2 * rules[r].evaluation_interval))
         => ~EngineTouched(r)]_vars

\* C9: a rule with no sample, or whose latest sample is more than 120
\* seconds old, whatever the age, is left alone: no alert is created or
\* resolved, last_evaluations and cooldown_periods keep its entries.
C9_StaleSampleIsNoOp ==
  [][EngineStep =>
       \A r \in RuleKeys :
         (/\ r # sweep_cur.rule
          /\ LatestMetrics(rules[r]) = {} \/ OlderThan(r, StaleSeconds))
         => /\ ~EngineTouched(r)
            /\ cooldown_periods'[r] = cooldown_periods[r]]_vars

\* This step logs a failed commit of _create_alert for r.
CreateCommitFailed(r) ==
  /\ Len(fault_log') = Len(fault_log) + 1
  /\ fault_log'[Len(fault_log')].kind = "create_raised"
  /\ fault_log'[Len(fault_log')].rule = r

\* A commit of _create_alert failed for r and the engine has stored no alert
\* for r since.
CreationPending(r) ==
  \E k \in DOMAIN fault_log :
    /\ fault_log[k].kind = "create_raised"
    /\ fault_log[k].rule = r
    /\ \A i \in EngineAlerts(r) : alerts[i].triggered_at < fault_log[k].time

\* This step of the loop evaluates r, at a later instant than the failure,
\* with the condition violated, and nothing fails in it.
Reevaluated(r) ==
  /\ EngineStep
  /\ fault_log' = fault_log
  /\ last_evaluations'[r] = now
  /\ last_evaluations[r] # now
  /\ LatestViolates(r)
  /\ ActiveOf(r) = {}

LastWake == IF later = <<>> THEN now ELSE later[Len(later)]

\* From here on R's cleared samples can be observed: R is enabled and every
\* sample that may be its latest is fresh and does not satisfy the condition.
Cleared(r) ==
  /\ rules[r].enabled
  /\ LatestAged(r, 0, StaleSeconds)
  /\ LatestClears(r)

\* The loop still wakes up at an instant where neither the cooldown of r nor
\* its evaluation interval holds the evaluation back.
WakesForRule(r) ==
  /\ later # <<>>
  /\ cooldown_periods[r] <= LastWake
  /\ sweep_cur.rule = r
       => sweep_cur.time + rules[r].cooldown_period <= LastWake
  /\ \/ last_evaluations[r] = NoTime
     \/ Seconds(LastWake - last_evaluations[r]) >= rules[r].evaluation_interval

SystemResolved(i) ==
  /\ i \in DOMAIN alerts
  /\ alerts[i].status = "resolved"
  /\ alerts[i].resolved_by = "system"
  /\ alerts[i].resolved_at # NoTime

\* An operator acknowledged or resolved the alert.
OperatorTook(i) ==
  /\ i \in DOMAIN alerts
  /\ \/ alerts[i].status = "acknowledged" /\ alerts[i].acknowledged_by = "admin"
     \/ alerts[i].status = "resolved" /\ alerts[i].resolved_by = "admin"

\* The alert is active and the hypotheses of auto-resolution hold for its rule.
AwaitsAutoResolution(i) ==
  /\ i \in DOMAIN alerts
  /\ alerts[i].status = "active"
  /\ Cleared(alerts[i].rule_id)
  /\ WakesForRule(alerts[i].rule_id)

BroadcastOver == bc.pc \in {"returned", "raised"}

\* Targets of the broadcast in bc that have stayed connected so far while
\* it ran: their peer is there and they are registered.
StayedConnected ==
  {ws \in bc.targets : /\ sockets[ws].state = "open"
                       /\ RegisteredIn(active_connections, ws)}

\* C11: when a broadcast has ended, every subscriber it was meant for that
\* stayed connected for the whole call has been sent the event, whatever
\* other subscribers failed, disconnected or connected meanwhile.
C11_BroadcastIsolation == BroadcastOver => StayedConnected \subseteq bc.received

\* C12: when a send operation of the hub ends, no connection whose write
\* failed in it is registered any more, and every connection whose write
\* succeeded is still registered if it was before.
C12_FailedWritesDeregistered ==
  [][sent' # sent =>
       /\ \A ws \in sent'.failed : ~RegisteredIn(active_connections', ws)
       /\ \A ws \in sent'.succeeded :
            RegisteredIn(active_connections, ws)
            => RegisteredIn(active_connections', ws)]_vars

\* C13: a broadcast suspended in a write to a subscriber that does not read
\* returns all the same, with the event sent to every subscriber that stayed
\* connected and the stuck subscriber out of the registry.
C13_StuckSubscriberCannotStall ==
  \A ws \in SocketIds :
    (bc.pc = "send" /\ bc.ws = ws /\ sockets[ws].state = "stuck")
    ~> (/\ bc.pc = "returned"
        /\ StayedConnected \subseteq bc.received
        /\ ~RegisteredIn(active_connections, ws))

\* ---------------------------------------------------------------- ingestion

\* The last request went through POST /metrics/batch, exactly one of its
\* records was invalid, and the store did not fail.
OneInvalidInBatch ==
  /\ response.endpoint = "submit_metrics_batch"
  /\ Cardinality(response.invalid) = 1
  /\ response.cause # "commit_raised"

\* C14: a batch of N samples with exactly one invalid record has its other
\* N-1 samples persisted, and its response lists one outcome per record, the
\* only rejection being at the position of the invalid record.
C14_OneInvalidRecordRejectedAlone ==
  OneInvalidInBatch =>
    /\ response.persisted = response.size - 1
    /\ Len(response.outcomes) = response.size
    /\ \A i \in 1..response.size :
         (response.outcomes[i] = "rejected") <=> (i \in response.invalid)

\* The request that has just been answered failed as a whole.
FailedAsAWhole == response'.cause \notin {None, "ok"}

\* C15: a submission that fails as a whole (its machine is not registered, or
\* the commit raises) stores none of its samples, leaves the last_seen and
\* last_metrics_update of every machine as they were, and is answered with
\* an error status.
C15_FailedSubmissionLeavesNoTrace ==
  [][FailedAsAWhole =>
       /\ response'.status \in {404, 500}
       /\ response'.persisted = 0
       /\ metrics' = metrics
       /\ machines' = machines]_vars

\* A batch of a machine that had reported before was lost to a commit that
\* raised.
C15_Witness ==
  /\ response.cause = "commit_raised"
  /\ response.size >= 1
  /\ metrics # {}
  /\ \E m \in DOMAIN machines : machines[m].last_seen \notin {NoTime, now}

\* ------------------------------------------------------------ notifications

Named == {notified.named[i] : i \in DOMAIN notified.named}
AttemptsOf(channel) ==
  {i \in DOMAIN notified.attempts : notified.attempts[i].channel = channel}
SomeSendFailed ==
  \E i \in DOMAIN notified.attempts : notified.attempts[i].result \in SendFailures

\* C16: when the send on one channel fails, by an exception or by a response
\* that is not a success, _send_notifications still returns to _create_alert
\* and _evaluate_rule (the cooldown of the rule starts and the sweep goes
\* on), and the send on every other channel of the rule that is enabled has
\* been attempted.
C16_ChannelFailureIsIsolated ==
  [][(sweep_pc = "notify" /\ sweep_pc' # "notify" /\ SomeSendFailed')
       => /\ cooldown_periods'[sweep_cur.rule] =
               CooldownStarted(cooldown_periods, sweep_cur.rule,
                               sweep_cur.time)[sweep_cur.rule]
          /\ fault_log' = fault_log
          /\ \A c \in Named' : Enabled(config, c) => AttemptsOf(c)' # {}]_vars

\* A send failed and a send on another channel went out after it.
C16_Witness ==
  \E i, j \in DOMAIN notified.attempts :
    /\ i < j
    /\ notified.attempts[i].result \in SendFailures
    /\ notified.attempts[j].result = "sent"
    /\ notified.attempts[j].channel # notified.attempts[i].channel

\* C17: a channel is attempted exactly when the rule names it and the
\* configuration enables it, and then it is attempted exactly once.
C17_AttemptedOnceIffNamedAndEnabled ==
  \A c \in Channels :
    /\ AttemptsOf(c) # {} <=> (c \in Named /\ config.row /\ Enabled(config, c))
    /\ Cardinality(AttemptsOf(c)) <= 1

\* ---------------------------------------------------------------- schedule

\* The sweep that starts now is to evaluate rule r: the rule is enabled, is
\* outside its cooldown, and was never evaluated or was evaluated at least
\* evaluation_interval seconds ago.
Due(r) ==
  /\ rules[r].enabled
  /\ ~InCooldown(cooldown_periods, r, now)
  /\ IntervalElapsed(r)

\* The step evaluates rule r.
Evaluated(r) ==
  /\ last_evaluations'[r] = now
  /\ last_evaluations[r] # now

\* C18: a sweep evaluates a rule that has a fresh sample exactly when the
\* rule is enabled, outside its cooldown, and at least evaluation_interval
\* seconds (a day or more included) have passed since its last evaluation;
\* so two evaluations of a rule are never less than evaluation_interval
\* apart, and the sweep creates and resolves no alert of a disabled rule.
C18_EvaluatedExactlyWhenDue ==
  [][(SweepRun /\ fault_log' = fault_log) =>
       \A r \in RuleKeys :
         /\ LatestAged(r, 0, StaleSeconds) => (Evaluated(r) <=> Due(r))
         /\ Evaluated(r) /\ last_evaluations[r] # NoTime
              => now - last_evaluations[r] >= rules[r].evaluation_interval
         /\ ~rules[r].enabled
              => /\ ActiveOf(r)' = ActiveOf(r)
                 /\ \A i \in AlertIds(alerts') :
                      alerts'[i].rule_id = r
                        => i \in AlertIds(alerts) /\ alerts'[i] = alerts[i]]_vars

\* ------------------------------------------------------------------ samples

\* What an evaluation of rule r at this instant does when the database
\* returns, among the latest rows of equal timestamp, the one of value tie.
EvaluationWith(r, tie) ==
  _evaluate_rule(alerts, last_evaluations, cooldown_periods, r, now, TRUE, 1,
                 tie)

\* C19: the outcome of an evaluation is fixed by the set of stored samples:
\* whichever of several samples of one timestamp arrived first, the
\* evaluation creates, resolves or leaves alone the same alerts.
C19_OutcomeFixedBySampleSet ==
  \A r \in RuleKeys : \A tie, other \in Values :
    EvaluationWith(r, tie) = EvaluationWith(r, other)

\* The samples of the component rule r is for.
ComponentMetrics(r) ==
  {m \in MatchingMetrics(rules[r]) :
     m.component_name = hardware_components[rules[r].component_id]}

\* C20: a rule that targets a component is evaluated against the samples of
\* that component only: while the component has no sample, a sweep does with
\* the rule what it does with a rule without samples, nothing.
C20_ComponentRuleReadsItsComponent ==
  [][(SweepRun /\ fault_log' = fault_log) =>
       \A r \in RuleKeys :
         (rules[r].component_id # None /\ ComponentMetrics(r) = {})
           => /\ last_evaluations'[r] = last_evaluations[r]
              /\ alerts' = alerts]_vars

\* ------------------------------------------------------- ingestion and engine

\* The step is an accepted request of POST /metrics/batch or POST /metrics.
Accepted ==
  /\ submit_metrics_batch \/ submit_metrics
  /\ response'.status = 200
  /\ response'.size > 0

\* C21: when an ingestion request returns after storing a sample that
\* violates the condition of an enabled rule which has no active alert, is
\* outside its cooldown and past its evaluation interval, an active alert of
\* the rule exists, with no sweep in between.
C21_IngestionEvaluatesRules ==
  [][Accepted =>
       \A r \in RuleKeys :
         (/\ Due(r)
          /\ ActiveOf(r) = {}
          /\ sweep_pc = "sleep"
          /\ LatestAged(r, 0, StaleSeconds)'
          /\ LatestViolates(r)')
           => ActiveOf(r)' # {}]_vars

\* ------------------------------------------------------------------ cooldown

\* The step resolves an alert of rule r.
ResolvedIn(r) ==
  \E i \in DOMAIN alerts :
    /\ alerts[i].rule_id = r
    /\ alerts[i].status # "resolved"
    /\ alerts'[i].status = "resolved"

\* The step ends an evaluation of rule r that has stored a new alert.
EndsCreation(r) ==
  /\ sweep_pc = "notify"
  /\ sweep_cur.rule = r
  /\ \E i \in EngineAlerts(r) : alerts[i].triggered_at = sweep_cur.time

C23_StopFinishesTheSweep ==
  [][/\ (sweep_pc = "notify" /\ sweep_pc' = "stopped")
          => cooldown_periods'[sweep_cur.rule] =
               CooldownStarted(cooldown_periods, sweep_cur.rule,
                               sweep_cur.time)[sweep_cur.rule]
     /\ sweep_pc = "stopped"
          => /\ sweep_pc' = "stopped"
             /\ last_evaluations' = last_evaluations
             /\ alerts' = alerts]_vars

\* --------------------------------------------------------------- timestamps

\* The timestamp the stored sample of record i of the last request is to
\* have: the record's, else the batch's, else the instant of ingestion.
ExpectedStamp(i) ==
  IF response.carried.records[i] # NoTime THEN response.carried.records[i]
  ELSE IF response.carried.batch # NoTime THEN response.carried.batch
  ELSE now

\* C24: every stored sample has the timestamp its record carried, else the
\* one its batch carried, else the server's time at ingestion.
C24_TimestampPrecedence ==
  [][(Accepted /\ response' # response) =>
       \A i \in DOMAIN response'.stored_at :
         response'.stored_at[i] = ExpectedStamp(i)']_vars

\* -------------------------------------------------------------- watermarks

\* The step serves a request of one or more samples that is to be accepted:
\* its records are valid, its machine is registered, the commit does not fail.
ServesSamples ==
  /\ submit_metrics_batch \/ submit_metrics
  /\ response'.size > 0
  /\ response'.invalid = {}
  /\ response'.cause # "commit_raised"

\* C25: every accepted submission of samples of a machine, through either
\* endpoint, sets the machine's last_seen and last_metrics_update to the
\* time of the submission.
C25_SubmissionMovesWatermark ==
  [][ServesSamples =>
       /\ response'.status = 200
       /\ \E m \in DOMAIN machines' :
            /\ machines'[m].last_seen = response'.stored_at[1]
            /\ machines'[m].last_metrics_update = response'.stored_at[1]]_vars

\* ------------------------------------------------------------------ pruning

\* The step is a prune.
Prunes == cleanup_old_metrics \/ _cleanup_old_metrics

\* C26: a prune with cutoff T deletes exactly the samples of timestamp
\* strictly below T, whenever they were inserted, and reports their number;
\* a dry run leaves the table as it is.
C26_PruneDeletesStrictlyOlder ==
  [][Prunes =>
       IF report'.dry_run THEN metrics' = metrics
       ELSE /\ metrics' = {m \in metrics : m.timestamp >= report'.cutoff}
            /\ report'.count = Cardinality(metrics \ metrics')]_vars

\* A prune deleted a sample and kept one stamped exactly at its cutoff.
C26_Witness ==
  /\ report.endpoint # None
  /\ ~report.dry_run
  /\ report.count > 0
  /\ \E m \in metrics : m.timestamp = report.cutoff

\* ------------------------------------------------------------------ summary

\* The samples of m1 inside the window of the summary reported by the step.
InWindow ==
  {m \in metrics : m.timestamp >= report'.cutoff /\ m.timestamp <= now}

\* C27: a summary reports the count, minimum, maximum and mean of exactly
\* the samples inside its window, and as latest the value of a sample of the
\* greatest timestamp in the window, in whatever order they were ingested.
C27_SummaryOverWindow ==
  [][(get_metrics_summary /\ InWindow # {}) =>
       /\ report'.count = Cardinality(InWindow)
       /\ report'.stats.min = Least({m.value : m \in InWindow})
       /\ report'.stats.max = Greatest({m.value : m \in InWindow})
       /\ report'.stats.sum = SumOf(InWindow)
       /\ \E m \in InWindow :
            /\ \A o \in InWindow : o.timestamp <= m.timestamp
            /\ report'.stats.latest = m.value]_vars

\* ---------------------------------------------------------------- condition

\* The result of the condition of rule r on a stored sample.
Met(r, m, operator) ==
  _evaluate_condition(m.value, rules[r].threshold_value, operator)

\* C28: on every sample, gt, lt, gte and lte are the order comparisons of
\* the value with the threshold, eq holds exactly when they differ by less
\* than 0.001, ne is the negation of eq, and any other operator gives false.
C28_ConditionIsTheStatedComparison ==
  \A r \in RuleKeys : \A m \in MatchingMetrics(rules[r]) :
    LET t == rules[r].threshold_value IN
    /\ m.value # NaN =>
         /\ Met(r, m, "gt") <=> m.value > t
         /\ Met(r, m, "lt") <=> m.value < t
         /\ Met(r, m, "gte") <=> m.value >= t
         /\ Met(r, m, "lte") <=> m.value <= t
         /\ Met(r, m, "eq") <=> Abs(m.value - t) * EpsilonInverse < 1
    /\ Met(r, m, "ne") <=> ~Met(r, m, "eq")
    /\ ~Met(r, m, "between")

\* ------------------------------------------------------- creation and cooldown

\* The step ends the evaluation that is in its notification hand-off.
HandOffEnds == sweep_pc = "notify" /\ sweep_cur' # sweep_cur

\* C29: when an evaluation that has stored a new alert of rule r ends, by a
\* return or by an exception of the notification hand-off, cooldown_periods
\* of r is the time of the evaluation plus the rule's cooldown_period.
C29_CreationStartsCooldown ==
  [][\A r \in RuleKeys :
       (EndsCreation(r) /\ HandOffEnds)
         => cooldown_periods'[r] = sweep_cur.time + rules[r].cooldown_period]_vars

EngineActs == (slept /\ ~slept') \/ HandOffEnds

\* C31: a step of the engine leaves every alert that is not active as it is,
\* and the only change of status it makes is from active to resolved.
C31_EngineWritesActiveAlertsOnly ==
  [][EngineActs =>
       \A i \in DOMAIN alerts :
         /\ alerts[i].status # "active" => alerts'[i] = alerts[i]
         /\ alerts'[i].status # alerts[i].status
              => alerts[i].status = "active" /\ alerts'[i].status = "resolved"]_vars

\* The engine has resolved an alert while another one was acknowledged.
C31_Witness ==
  \E i, j \in DOMAIN alerts :
    /\ alerts[i].status = "acknowledged"
    /\ alerts[j].resolved_by = "system"
    /\ alerts[j].resolved_at >= alerts[i].acknowledged_at

\* C32: every resolved alert has resolved_at and resolved_by, and every
\* acknowledged alert has acknowledged_at and acknowledged_by.
C32_StatusCarriesItsStamp ==
  \A i \in DOMAIN alerts :
    /\ alerts[i].status = "resolved"
         => alerts[i].resolved_at # NoTime /\ alerts[i].resolved_by # None
    /\ alerts[i].status = "acknowledged"
         => alerts[i].acknowledged_at # NoTime
              /\ alerts[i].acknowledged_by # None

\* ------------------------------------------------------------ the hub's maps

\* C33: active_connections, client_types and last_seen have the same keys.
C33_MapsShareTheirKeys ==
  /\ Keys(active_connections) = DOMAIN client_types
  /\ Keys(active_connections) = last_seen

\* The connections made after ws under the same client id.
Successors(ws) ==
  {later_ws \in SocketIds :
     /\ later_ws > ws
     /\ sockets[later_ws].state # "new"
     /\ sockets[later_ws].client_id = sockets[ws].client_id}

\* C34: a connection is removed only by its own disconnect or its own
\* failed write: a connection that is open, and is the latest one made under
\* its client id, is registered, whatever the handlers of earlier
\* connections with that id have done.
C34_OnlyOwnDisconnectRemoves ==
  \A ws \in SocketIds :
    (sockets[ws].state = "open" /\ Successors(ws) = {})
      => RegisteredIn(active_connections, ws)

\* The agents the step removes from the maps.
RemovedAgents ==
  {k \in Keys(active_connections) \ Keys(active_connections') :
     client_types[k] = "agent"}

\* The step is a connect: a WebSocket is accepted.
Connects ==
  \E ws \in SocketIds : sockets[ws].state = "new" /\ sockets'[ws].state # "new"

\* C35: disconnect is idempotent: a step creates as many agent_disconnected
\* broadcasts as it removes registered agents, and a disconnect for an id
\* that is not registered changes none of the maps and creates none.
C35_OneBroadcastPerRemoval ==
  [][/\ RemovedAgents # {}
          => spawned' = spawned + Cardinality(RemovedAgents)
     /\ (spawned' > spawned /\ ~Connects) => RemovedAgents # {}
     /\ \A ws \in SocketIds :
          (/\ sockets[ws].state = "closed"
           /\ sockets'[ws].state = "gone"
           /\ sockets[ws].client_id \notin Keys(active_connections))
            => /\ Keys(active_connections') = Keys(active_connections)
               /\ client_types' = client_types
               /\ last_seen' = last_seen
               /\ spawned' = spawned]_vars

\* The endpoint of an agent has called disconnect after the clean-up of a
\* broadcast whose write to it failed had removed the agent.
C35_Witness ==
  \E ws \in SocketIds :
    /\ sockets[ws].state = "gone"
    /\ sockets[ws].client_type = "agent"
    /\ sockets[ws].client_id \notin Keys(active_connections)
    /\ ws \in sent.failed
    /\ sent.op \in {"broadcast_message", "send_to_client"}

\* ---------------------------------------------------------------- watermark

\* C36: the last_metrics_update and last_seen of a machine never move
\* backwards, whatever the timestamps of the batches accepted for it.
C36_WatermarkNeverMovesBack ==
  [][\A m \in DOMAIN machines \cap DOMAIN machines' :
       /\ machines'[m].last_metrics_update >= machines[m].last_metrics_update
       /\ machines'[m].last_seen >= machines[m].last_seen]_vars

\* ------------------------------------------------------- a sweep's exceptions

\* The rules the for loop of the sweep has before it at this step.
Pending ==
  IF sweep_pc = "sleep"
    THEN {r \in RuleKeys : rules[r].enabled}
    ELSE {sweep_todo[i] : i \in DOMAIN sweep_todo}

\* C37: whatever raises while a sweep evaluates one rule, the rules after it
\* are evaluated in the same sweep: when the loop runs on, every rule before
\* it that is due and has a fresh sample is evaluated or still to come.
C37_SweepSurvivesARaisingRule ==
  [][EngineActs =>
       \A r \in Pending :
         (Due(r) /\ LatestAged(r, 0, StaleSeconds))
           => \/ last_evaluations'[r] = now
              \/ \E i \in DOMAIN sweep_todo' : sweep_todo'[i] = r]_vars

\* ------------------------------------------------------------ start and stop

\* C38: start creates a task only when the manager is not running, there is
\* never more than one _alert_loop task, and while the manager is stopped
\* no rule is evaluated: the engine's maps and the alerts stay as they are
\* until start is called.
C38_OneLoopAndNoneAfterStop ==
  [][/\ alert_manager'.alert_tasks > alert_manager.alert_tasks
          => ~alert_manager.is_running
     /\ alert_manager'.alert_tasks <= 1
     /\ alert_manager'.is_running <=> alert_manager'.alert_tasks = 1
     /\ (~alert_manager.is_running /\ ~alert_manager'.is_running)
          => /\ last_evaluations' = last_evaluations
             /\ cooldown_periods' = cooldown_periods
             /\ alerts' = alerts
             /\ sweep_pc' = "stopped"]_vars

\* The manager has been stopped during a notification hand-off (the alert
\* is stored, its cooldown was never started) and started again, and the
\* new loop has evaluated the rule.
C38_Witness ==
  /\ alert_manager = Started
  /\ sweep_pc = "sleep"
  /\ \E r \in RuleKeys :
       /\ cooldown_periods[r] = NoTime
       /\ last_evaluations[r] = now
       /\ \E i \in EngineAlerts(r) : alerts[i].triggered_at < now

\* ------------------------------------------------------------- health score

\* C39: the health impact of a scored metric type does not decrease as the
\* latest value grows from 0 to 100: the impact an analysis has computed
\* for a latest value up to 100 is at least the impact of every lower value.
C39_ImpactIsMonotone ==
  report.endpoint = "_analyze_machine_metrics"
    => \A t \in DOMAIN report.latest : \A lower \in 0..100 :
         (lower <= report.latest[t] /\ report.latest[t] <= 100)
           => _calculate_health_impact(t, lower) <= report.health_impact[t]

\* -------------------------------------------------------------- HTTP client

\* C40: _request makes at most max_retries + 1 attempts and returns a result
\* after the last; an attempt is retried only after a 5xx response, a client
\* error, a timeout or another exception of the request, after a delay of
\* retry_delay times the number of the attempt; a 2xx or 4xx response is
\* returned by the attempt that received it.
C40_RetriesOnlyServerErrors ==
  /\ Len(http.log) <= max_retries + 1
  /\ http.pc = "returned" => http.result # None
  /\ \A i \in DOMAIN http.log :
       LET answer == http.log[i].answer
           retried == i < Len(http.log) \/ http.pc = "sleep"
       IN /\ retried => http.log[i].delay = retry_delay * i
          /\ (answer.kind = "response" /\ answer.status \in 200..499)
               => ~retried

====
